---- MODULE Spec2Model ----
(***************************************************************************)
(* The streaming chat-completion pipeline of the document assistant:       *)
(*   - LLMClient.genTextStream, the agent loop                             *)
(*       (src/src/server/lib/models/client.ts)                             *)
(*   - the POST handlers of the chat endpoint, which consume its queue     *)
(*       (src/src/app/api/chat/route.ts, both implementations in the file) *)
(*   - EventSourceWriter, the labelled, indexed stream writer              *)
(*       (src/src/server/utils.ts)                                         *)
(*                                                                         *)
(* The specifications share the variables:                                 *)
(*   SpecLoop    genTextStream's data() driven by a caller that passes a   *)
(*               tools map, for every behaviour of the model backend;      *)
(*   SpecRoute   the chat endpoint, from authentication to the stored      *)
(*               transcript;                                               *)
(*   SpecWriter  one EventSourceWriter session, flush included;            *)
(*   SpecStream  data() with tools composed with the map callback;         *)
(*   SpecTools   the tools of createTools run for two users;               *)
(*   SpecChat    two requests on one chat;                                 *)
(*   SpecClient  ChatSidebar and sendChatStream (src/src/lib/streams.ts);  *)
(*   SpecModels  getModel as called by the methods of LLMClient.           *)
(*                                                                         *)
(* The queue is superqueue's Queue, an external package: push appends,     *)
(* end marks the queue ended, and the promise of queue.map(cb) resolves    *)
(* once the queue has ended and cb was applied to every chunk, in order.   *)
(***************************************************************************)
EXTENDS Naturals, Sequences, FiniteSets, TLC

VARIABLES
  \* ---- LLMClient.genTextStream / data() ----
  toolsArg,         \* the tools argument, one of ToolsArgs
  lpc,              \* position of data(): idle (no call), ready (not yet invoked), loop,
                    \* text, exec, end, returned, raised
  iteration,        \* let iteration
  allText,          \* let allText
  currentMessages,  \* let currentMessages
  toolCalls,        \* await streamResult.toolCalls of the running iteration
  tcIdx,            \* position of the executing for-loop in toolCalls
  toolResults,      \* const toolResults of the running iteration
  queue,            \* every chunk pushed to the outbound queue, in push order
  queueEnded,       \* queue.end() was called
  genCalls,         \* number of streamText calls issued (history)
  nextId,           \* next toolCallId the backend hands out
  chunksOut,        \* number of text chunks the backend has produced
  threw,            \* toolCallIds whose executor threw (history)
  executed,         \* toolCallIds handed to an executor, in order (history)
  modelFailed,      \* the backend failed during a turn (history)
  invalidInput,     \* toolCallIds whose input does not match the tool's inputSchema
  \* ---- POST /api/chat ----
  variant,          \* which handler of route.ts serves the request: 1 or 2
  authed,           \* the request: auth() yields a userId
  reqChat,          \* the request: its chatId is "none", "own", "other" or "missing"
  reqValid,         \* the request: messages is an array
  reqMessages,      \* the request: the roles of messages, in order
  status,           \* status of the Response, 0 while there is none
  userUpserts,      \* number of upsertUser calls
  rpc,              \* position of start(controller)
  consumed,         \* chunks of the queue already passed to the map callback
  assistantResponse,\* let assistantResponse
  stream,           \* records enqueued on the response stream, in order
  streamState,      \* "none", "open", "closed" (controller.close), "errored",
                    \* "cancelled" (the client closed the transport)
  dbMessages,       \* rows this request inserted in chat_messages, in order
  chatTouched,      \* number of updateChatTimestamp calls
  dbCalls,          \* the calls made to the database client, in call order
  \* ---- EventSourceWriter ----
  windex,           \* #index
  wqueue,           \* chunks of the registered queue not yet taken by the callback
  wtasks,           \* writers in flight: 0 is the queue callback, k the k-th sendEvent
  sink,             \* lines handed to writer.write, in call order
  acked,            \* number of lines whose write promise has resolved
  wsent,            \* number of sendEvent calls made
  wended,           \* queue.ended of the registered queue
  wflush,           \* flush(): none (not called), threw, event and data (its two
                    \* writes), released (writer.releaseLock() done)
  \* ---- createTools(userId) and the documents table ----
  documents,        \* rows of the documents table; the id of a row is its position
  texec,            \* per user: the tool executor running in a request of that user
  tresults,         \* what the executors returned, in order of return (history)
  tupdates,         \* the updateDocument calls made on the database (history)
  \* ---- requests that overlap on one chat ----
  sessions,         \* per request: the handler serving it, its position, its transcript
  chatMessages,     \* rows of chat_messages of the chat, in insertion order
  \* ---- ChatSidebar and sendChatStream (the browser) ----
  sidebarChatId,    \* ChatSidebar's chatId state, 0 for null
  sent,             \* the chatId of every request handleSendMessage sent, in order
  chatsCreated,     \* chats the server created for these requests
  httpResponse,     \* the response to the running request
  cpc,              \* position of fetchEventSource: idle, fetch, open, ended
  delivered,        \* events of the response already passed to onmessage
  resultChatId,     \* let resultChatId
  rejected,         \* let rejected
  processed,        \* const processed: the indexes seen
  toolInvocationsMap, \* const toolInvocationsMap
  callbacks,        \* the callbacks invoked for the running request, in order
  promise,          \* the promise sendChatStream returned
  \* ---- an LLMClient ----
  llmModel,         \* #model
  modelCalls        \* the calls of getModel made by the methods, with what came of them

loopVars == <<toolsArg, lpc, iteration, allText, currentMessages, toolCalls, tcIdx,
              toolResults, queue, queueEnded, genCalls, nextId, chunksOut, threw,
              executed, modelFailed, invalidInput>>
reqVars == <<variant, authed, reqChat, reqValid, reqMessages>>
routeVars == <<reqVars, status, userUpserts, rpc, consumed, assistantResponse, stream,
               streamState, dbMessages, chatTouched, dbCalls>>
writerVars == <<windex, wqueue, wtasks, sink, acked, wsent, wended, wflush>>
toolVars == <<documents, texec, tresults, tupdates>>
chatVars == <<sessions, chatMessages>>
clientVars == <<sidebarChatId, sent, chatsCreated, httpResponse, cpc, delivered,
                resultChatId, rejected, processed, toolInvocationsMap, callbacks,
                promise>>
modelVars == <<llmModel, modelCalls>>
vars == <<loopVars, routeVars, writerVars, toolVars, chatVars, clientVars, modelVars>>

----------------------------------------------------------------------------
\* Bounds of the model

\* text chunks the backend produces in one session, at most
MaxChunks == 2
\* tool calls the backend requests in one session, at most
MaxCalls == 5
\* tool calls the backend requests in one turn, at most
MaxCallsPerTurn == 2
\* tool calls of a session whose input does not match the inputSchema, at most
MaxInvalid == 1

\* chunks pushed to the queue registered with an EventSourceWriter, at most
MaxWChunks == 3
\* sendEvent calls made on an EventSourceWriter, at most
MaxSendEvents == 2

\* messages in the body of a request, at most
MaxMessages == 2

\* const maxIterations = 5
maxIterations == 5

\* The k-th text chunk of a session: distinct chunks, so that order shows.
Letters == <<"a", "b", "c", "d">>
ChunkText(k) == Letters[((k - 1) % Len(Letters)) + 1]

\* Names the backend may put in a tool call: one that the tools map may hold,
\* and one that no tools map holds.
ToolNames == {"getDocument", "unknownTool"}

\* The tools arguments a caller passes: "none" is undefined, "map" holds
\* getDocument with an executor (as createTools does), "declared" holds
\* getDocument without execute (Tool.execute is optional).
ToolsArgs == {"none", "map", "declared"}

\* tools?.[name]: the entry of the tools argument, "undefined" when absent
ToolEntry(tools, name) ==
  IF tools \in {"map", "declared"} /\ name = "getDocument"
    THEN [execute |-> tools = "map"]
    ELSE [execute |-> FALSE, undefined |-> TRUE]

\* if (tool && tool.execute)
HasExecutor(tools, name) ==
  LET tool == ToolEntry(tools, name)
  IN  /\ "undefined" \notin DOMAIN tool
      /\ tool.execute

\* The messages argument of the request.
InputMessages ==
  << [role |-> "user",
      content |-> << [type |-> "text", toolCallId |-> 0, toolName |-> "", payload |-> "q"] >>] >>

\* const messagesWithSystem = [systemPrompt, ...messages]
MessagesWithSystem ==
  << [role |-> "system",
      content |-> << [type |-> "text", toolCallId |-> 0, toolName |-> "",
                      payload |-> "s"] >>] >> \o InputMessages

\* A chunk of the outbound queue: a string, or a ToolCall object (which has no
\* type field).
TextChunkOf(s) ==
  [typeof |-> "string", type |-> "undefined", text |-> s, toolCallId |-> 0, toolName |-> ""]
ToolCallChunk(tc) ==
  [typeof |-> "object", type |-> "undefined", text |-> "",
   toolCallId |-> tc.toolCallId, toolName |-> tc.toolName]

\* String(error)
StringOfError == "Error: boom"

\* JSON.stringify(tr.result)
JSONStringify(result) ==
  IF "error" \in DOMAIN result
    THEN "{\"error\":\"" \o result.error \o "\"}"
    ELSE "{\"success\":true}"

----------------------------------------------------------------------------
\* LLMClient.genTextStream: data()

\* the loop guard with the bound taken inclusively
LoopGuard_OffByOne(i) == i <= maxIterations

\* while (iteration < maxIterations)
LoopGuard(i) == i < maxIterations

\* the accumulation with its operands swapped
AccumulateText_Prepend(text, chunk) == chunk \o text

\* allText += chunk
AccumulateText(text, chunk) == text \o chunk

\* the try/catch with a catch block that only logs
ResultOfExecute_DropsThrow(tc, outcome) ==
  IF outcome = "returns"
    THEN << [toolCallId |-> tc.toolCallId, toolName |-> tc.toolName,
             result |-> [success |-> TRUE]] >>
    ELSE << >>

\* the try/catch around tool.execute: what is pushed to toolResults
ResultOfExecute(tc, outcome) ==
  IF outcome = "returns"
    THEN << [toolCallId |-> tc.toolCallId, toolName |-> tc.toolName,
             result |-> [success |-> TRUE]] >>
    ELSE << [toolCallId |-> tc.toolCallId, toolName |-> tc.toolName,
             result |-> [error |-> StringOfError]] >>

AssistantPart(tc) ==
  [type |-> "tool-call", toolCallId |-> tc.toolCallId, toolName |-> tc.toolName,
   payload |-> ""]
ToolPart(tr) ==
  [type |-> "tool-result", toolCallId |-> tr.toolCallId, toolName |-> tr.toolName,
   payload |-> JSONStringify(tr.result)]

\* toolCalls.map(tc => ({type: 'tool-call', ...}))
RECURSIVE AssistantParts(_)
AssistantParts(tcs) ==
  IF tcs = << >> THEN << >>
  ELSE << AssistantPart(Head(tcs)) >> \o AssistantParts(Tail(tcs))

\* the mapping with the order of the results turned around
RECURSIVE ToolParts_Reversed(_)
ToolParts_Reversed(trs) ==
  IF trs = << >> THEN << >>
  ELSE ToolParts_Reversed(Tail(trs)) \o << ToolPart(Head(trs)) >>

\* toolResults.map(tr => ({type: 'tool-result', ...}))
RECURSIVE ToolParts(_)
ToolParts(trs) ==
  IF trs = << >> THEN << >>
  ELSE << ToolPart(Head(trs)) >> \o ToolParts(Tail(trs))

\* the loop with a push for the first call only
ToolCallChunks_FirstOnly(tcs) ==
  IF tcs = << >> THEN << >> ELSE << ToolCallChunk(Head(tcs)) >>

\* for (const tc of toolCalls) queue.push(toolCall)
RECURSIVE ToolCallChunks(_)
ToolCallChunks(tcs) ==
  IF tcs = << >> THEN << >>
  ELSE << ToolCallChunk(Head(tcs)) >> \o ToolCallChunks(Tail(tcs))

\* the assignment without the spread of currentMessages
NextMessages_Replace(msgs, tcs, trs) ==
  << [role |-> "assistant", content |-> AssistantParts(tcs)],
     [role |-> "tool", content |-> ToolParts(trs)] >>

\* currentMessages = [...currentMessages, {role: 'assistant', ...}, {role: 'tool', ...}]
NextMessages(msgs, tcs, trs) ==
  msgs \o << [role |-> "assistant", content |-> AssistantParts(tcs)],
             [role |-> "tool", content |-> ToolParts(trs)] >>

\* data() touches neither the handler's nor the writer's state
LoopFrame == UNCHANGED <<routeVars, writerVars, toolVars, chatVars, clientVars, modelVars>>

\* const data = async () => { let allText = ''; let currentMessages = [...messages]; ...
DataStart ==
  /\ lpc = "ready"
  /\ LoopFrame
  /\ UNCHANGED <<modelFailed, invalidInput>>
  /\ lpc' = "loop"
  /\ allText' = ""
  /\ currentMessages' = InputMessages
  /\ iteration' = 0
  /\ UNCHANGED <<toolsArg, toolCalls, tcIdx, toolResults, queue, queueEnded, genCalls,
                 nextId, chunksOut, threw, executed>>

\* the loop head with a true guard: iteration++ and the streamText call
StartIteration ==
  /\ lpc = "loop"
  /\ LoopFrame
  /\ UNCHANGED <<modelFailed, invalidInput>>
  /\ LoopGuard(iteration)
  /\ iteration' = iteration + 1
  /\ genCalls' = genCalls + 1
  /\ lpc' = "text"
  /\ UNCHANGED <<toolsArg, allText, currentMessages, toolCalls, tcIdx, toolResults,
                 queue, queueEnded, nextId, chunksOut, threw, executed>>

\* the loop head with a false guard: the cap is exhausted
CapExhausted ==
  /\ lpc = "loop"
  /\ LoopFrame
  /\ UNCHANGED <<modelFailed, invalidInput>>
  /\ ~LoopGuard(iteration)
  /\ lpc' = "end"
  /\ UNCHANGED <<toolsArg, iteration, allText, currentMessages, toolCalls, tcIdx,
                 toolResults, queue, queueEnded, genCalls, nextId, chunksOut, threw,
                 executed>>

\* for await (const chunk of streamResult.textStream) { allText += chunk; queue.push(chunk) }
TextChunk ==
  /\ lpc = "text"
  /\ LoopFrame
  /\ UNCHANGED <<modelFailed, invalidInput>>
  /\ chunksOut < MaxChunks
  /\ LET chunk == ChunkText(chunksOut + 1)
     IN  /\ allText' = AccumulateText(allText, chunk)
         /\ queue' = Append(queue, TextChunkOf(chunk))
  /\ chunksOut' = chunksOut + 1
  /\ UNCHANGED <<toolsArg, lpc, iteration, currentMessages, toolCalls, tcIdx,
                 toolResults, queueEnded, genCalls, nextId, threw, executed>>

\* the backend fails during the turn: textStream or toolCalls rejects, and
\* data() rejects with it (nothing in data() catches it)
ModelFails ==
  /\ lpc = "text"
  /\ LoopFrame
  /\ lpc' = "raised"
  /\ modelFailed' = TRUE
  /\ UNCHANGED invalidInput
  /\ UNCHANGED <<toolsArg, iteration, allText, currentMessages, toolCalls, tcIdx,
                 toolResults, queue, queueEnded, genCalls, nextId, chunksOut, threw,
                 executed>>

\* await streamResult.toolCalls is empty: break
NoToolCalls ==
  /\ lpc = "text"
  /\ LoopFrame
  /\ UNCHANGED <<modelFailed, invalidInput>>
  /\ lpc' = "end"
  /\ toolCalls' = << >>
  /\ UNCHANGED <<toolsArg, iteration, allText, currentMessages, tcIdx, toolResults,
                 queue, queueEnded, genCalls, nextId, chunksOut, threw, executed>>

\* The tool calls of one turn: the backend numbers them.
RECURSIVE CallsFrom(_, _)
CallsFrom(names, id) ==
  IF names = << >> THEN << >>
  ELSE << [toolCallId |-> id, toolName |-> Head(names)] >> \o CallsFrom(Tail(names), id + 1)

NameSeqs(n) == UNION { [1..k -> ToolNames] : k \in 1..n }

\* The calls of a turn whose input the backend produced against the schema:
\* none of them, or one, while fewer than MaxInvalid such calls were issued.
\* streamText hands such a call on in toolCalls like any other (or fails the
\* turn, which is ModelFails).
InvalidChoices(tcs, issued) ==
  {{}} \cup (IF Cardinality(issued) < MaxInvalid
               THEN { {tcs[k].toolCallId} : k \in 1..Len(tcs) }
               ELSE {})

\* await streamResult.toolCalls is not empty: every call is pushed to the queue
ToolCallsRequested ==
  /\ lpc = "text"
  /\ LoopFrame
  /\ UNCHANGED modelFailed
  /\ toolsArg # "none"
  /\ \E names \in NameSeqs(MaxCallsPerTurn) :
       /\ (nextId - 1) + Len(names) <= MaxCalls
       /\ LET tcs == CallsFrom(names, nextId)
          IN  /\ toolCalls' = tcs
              /\ queue' = queue \o ToolCallChunks(tcs)
              /\ \E bad \in InvalidChoices(tcs, invalidInput) :
                   invalidInput' = invalidInput \cup bad
       /\ nextId' = nextId + Len(names)
  /\ toolResults' = << >>
  /\ tcIdx' = 1
  /\ lpc' = "exec"
  /\ UNCHANGED <<toolsArg, iteration, allText, currentMessages, queueEnded, genCalls,
                 chunksOut, threw, executed>>

\* one pass of `for (const tc of toolCalls)` for a tool that has an executor
ExecTool(outcome) ==
  /\ lpc = "exec"
  /\ LoopFrame
  /\ UNCHANGED <<modelFailed, invalidInput>>
  /\ tcIdx <= Len(toolCalls)
  /\ LET tc == toolCalls[tcIdx]
     IN  /\ HasExecutor(toolsArg, tc.toolName)
         /\ toolResults' = toolResults \o ResultOfExecute(tc, outcome)
         /\ executed' = Append(executed, tc.toolCallId)
         /\ threw' = IF outcome = "throws" THEN threw \cup {tc.toolCallId} ELSE threw
  /\ tcIdx' = tcIdx + 1
  /\ UNCHANGED <<toolsArg, lpc, iteration, allText, currentMessages, toolCalls, queue,
                 queueEnded, genCalls, nextId, chunksOut>>

ExecToolReturns == ExecTool("returns")
ExecToolThrows == ExecTool("throws")

\* one pass of the for-loop for a tool that is missing or has no executor:
\* the if has no else
SkipTool ==
  /\ lpc = "exec"
  /\ LoopFrame
  /\ UNCHANGED <<modelFailed, invalidInput>>
  /\ tcIdx <= Len(toolCalls)
  /\ ~HasExecutor(toolsArg, toolCalls[tcIdx].toolName)
  /\ tcIdx' = tcIdx + 1
  /\ UNCHANGED <<toolsArg, lpc, iteration, allText, currentMessages, toolCalls,
                 toolResults, queue, queueEnded, genCalls, nextId, chunksOut, threw,
                 executed>>

\* Build next messages with tool results; continue
BuildMessages ==
  /\ lpc = "exec"
  /\ LoopFrame
  /\ UNCHANGED <<modelFailed, invalidInput>>
  /\ tcIdx > Len(toolCalls)
  /\ currentMessages' = NextMessages(currentMessages, toolCalls, toolResults)
  /\ lpc' = "loop"
  /\ UNCHANGED <<toolsArg, iteration, allText, toolCalls, tcIdx, toolResults, queue,
                 queueEnded, genCalls, nextId, chunksOut, threw, executed>>

\* queue.end(); return {text: allText, toolCalls: []}
EndQueue ==
  /\ lpc = "end"
  /\ LoopFrame
  /\ UNCHANGED <<modelFailed, invalidInput>>
  /\ queueEnded' = TRUE
  /\ lpc' = "returned"
  /\ UNCHANGED <<toolsArg, iteration, allText, currentMessages, toolCalls, tcIdx,
                 toolResults, queue, genCalls, nextId, chunksOut, threw, executed>>

LoopInitWith(tools, pc) ==
  /\ toolsArg = tools
  /\ lpc = pc
  /\ iteration = 0
  /\ allText = ""
  /\ currentMessages = << >>
  /\ toolCalls = << >>
  /\ tcIdx = 1
  /\ toolResults = << >>
  /\ queue = << >>
  /\ queueEnded = FALSE
  /\ genCalls = 0
  /\ nextId = 1
  /\ chunksOut = 0
  /\ threw = {}
  /\ executed = << >>
  /\ modelFailed = FALSE
  /\ invalidInput = {}

RouteIdle ==
  /\ variant = 0
  /\ authed = FALSE
  /\ reqChat = "none"
  /\ reqValid = TRUE
  /\ reqMessages = << >>
  /\ status = 0
  /\ userUpserts = 0
  /\ rpc = "none"
  /\ consumed = 0
  /\ assistantResponse = ""
  /\ stream = << >>
  /\ streamState = "none"
  /\ dbMessages = << >>
  /\ chatTouched = 0
  /\ dbCalls = << >>

WriterIdle ==
  /\ windex = 0
  /\ wqueue = << >>
  /\ wtasks = {}
  /\ sink = << >>
  /\ acked = 0
  /\ wsent = 0
  /\ wended = FALSE
  /\ wflush = "none"

\* no tool executor of createTools is in use
ToolsIdle ==
  /\ documents = << >>
  /\ texec = << >>
  /\ tresults = << >>
  /\ tupdates = << >>

\* no requests overlap on a chat
ChatIdle ==
  /\ sessions = << >>
  /\ chatMessages = << >>

\* null, where a chat id is a string
Null == "null"

\* a promise: pending, or settled with a value
Pending == [state |-> "pending", chatId |-> Null]

\* no response has arrived
NoResponse ==
  [producer |-> "", status |-> 0, header |-> Null, frames |-> << >>, end |-> "",
   created |-> FALSE, chat |-> 0]

\* no page is open
\* the client of the chat endpoint, before any of its methods has run
ModelsIdle ==
  /\ llmModel = "claude-sonnet-4-0"
  /\ modelCalls = << >>

ClientIdle ==
  /\ sidebarChatId = 0
  /\ sent = << >>
  /\ chatsCreated = 0
  /\ httpResponse = NoResponse
  /\ cpc = "idle"
  /\ delivered = 0
  /\ resultChatId = Null
  /\ rejected = FALSE
  /\ processed = {}
  /\ toolInvocationsMap = << >>
  /\ callbacks = << >>
  /\ promise = Pending

\* genTextStream(messages, temp, tools) has returned {queue, data}
InitLoop ==
  /\ \E tools \in ToolsArgs : LoopInitWith(tools, "ready")
  /\ RouteIdle
  /\ WriterIdle
  /\ ToolsIdle
  /\ ChatIdle
  /\ ClientIdle
  /\ ModelsIdle

NextLoop ==
  \/ DataStart
  \/ StartIteration
  \/ CapExhausted
  \/ TextChunk
  \/ ModelFails
  \/ NoToolCalls
  \/ ToolCallsRequested
  \/ ExecToolReturns
  \/ ExecToolThrows
  \/ SkipTool
  \/ BuildMessages
  \/ EndQueue

SpecLoop == InitLoop /\ [][NextLoop]_vars

----------------------------------------------------------------------------
\* Properties of genTextStream, checked under SpecLoop

IsTextChunk(c) == c.typeof = "string"
IsToolCallNotice(c) == c.typeof = "object" /\ c.type # "tool-result"
IsToolResultNotice(c) == c.typeof = "object" /\ c.type = "tool-result"

RECURSIVE ConcatTexts(_)
ConcatTexts(q) ==
  IF q = << >> THEN ""
  ELSE (IF IsTextChunk(Head(q)) THEN Head(q).text ELSE "") \o ConcatTexts(Tail(q))

\* the tool-result parts of message k of a conversation
ResultParts(msgs, k) ==
  IF k \in DOMAIN msgs /\ msgs[k].role = "tool"
    THEN { msgs[k].content[j] : j \in DOMAIN msgs[k].content }
    ELSE {}

\* every tool call of every assistant tool-call message has a tool-result part
\* with its toolCallId in the message that follows
AllCallsAnswered(msgs) ==
  \A k \in DOMAIN msgs :
    msgs[k].role = "assistant" =>
      \A j \in DOMAIN msgs[k].content :
        \E part \in ResultParts(msgs, k + 1) :
          /\ part.type = "tool-result"
          /\ part.toolCallId = msgs[k].content[j].toolCallId

ErrorOutput == JSONStringify([error |-> StringOfError])

\* the conversation holds an error output for the call
ErrorInConversation(id) ==
  \E k \in DOMAIN currentMessages :
    \E part \in ResultParts(currentMessages, k) :
      part.toolCallId = id /\ part.payload = ErrorOutput

\* toolResults holds an error-shaped result for the call
ErrorInResults(id) ==
  \E k \in DOMAIN toolResults :
    /\ toolResults[k].toolCallId = id
    /\ "error" \in DOMAIN toolResults[k].result

\* C2: every tool call pushed to the outbound queue is followed, later on the
\* queue, by exactly one tool result with the same toolCallId.  Stated for a
\* session that has returned.
CE_C2_EveryCallHasOneResult ==
  lpc = "returned" =>
    \A i \in DOMAIN queue :
      IsToolCallNotice(queue[i]) =>
        Cardinality({ j \in DOMAIN queue :
                        /\ j > i
                        /\ IsToolResultNotice(queue[j])
                        /\ queue[j].toolCallId = queue[i].toolCallId }) = 1

\* C3: when a generation call is issued, every tool call appended to the
\* conversation in an earlier iteration has a tool result with its toolCallId in
\* the tool-role message that follows it, whatever tool name was requested.
CE_C3_CallsAnsweredBeforeNextTurn ==
  lpc = "text" => AllCallsAnswered(currentMessages)

\* C5: data() issues at most maxIterations generation calls; it then ends the
\* queue and returns: it raises only when the backend itself failed, a return
\* leaves the queue ended, and until it has returned or raised it can always
\* take a step.
C5_LoopBounded ==
  /\ genCalls <= maxIterations
  /\ iteration <= maxIterations
  /\ lpc = "raised" => modelFailed
  /\ lpc = "returned" => queueEnded
  /\ lpc \notin {"returned", "raised"} =>
       \/ ENABLED StartIteration
       \/ ENABLED CapExhausted
       \/ ENABLED NoToolCalls
       \/ ENABLED ExecToolReturns
       \/ ENABLED SkipTool
       \/ ENABLED BuildMessages
       \/ ENABLED EndQueue
       \/ ENABLED DataStart

\* a backend that requested a tool call in each of the maxIterations turns, and
\* data() has returned
Witness_C5 ==
  /\ lpc = "returned"
  /\ genCalls = maxIterations
  /\ Len(currentMessages) = Len(InputMessages) + 2 * maxIterations
  /\ ~modelFailed

\* C6: the text data() returns is the concatenation, in push order, of the text
\* chunks pushed to the queue; tool-call chunks contribute nothing.
C6_AllTextIsConcatOfChunks ==
  lpc # "ready" => allText = ConcatTexts(queue)

\* data() has returned after text, then a tool call, then text of a later turn
Witness_C6 ==
  /\ lpc = "returned"
  /\ \E i, j, k \in DOMAIN queue :
       /\ i < j /\ j < k
       /\ IsTextChunk(queue[i])
       /\ IsToolCallNotice(queue[j])
       /\ IsTextChunk(queue[k])

\* C7: an executor that throws yields a result with the call's toolCallId and an
\* error-shaped output; the calls after it in the turn are still executed; the
\* loop is not aborted; and the conversation of every later generation call
\* holds that error as the tool's output.
C7_ThrowIsRecovered ==
  /\ \A id \in threw : ErrorInResults(id) \/ ErrorInConversation(id)
  /\ lpc = "text" => \A id \in threw : ErrorInConversation(id)
  /\ (lpc = "exec" /\ tcIdx > Len(toolCalls)) =>
       \A k \in DOMAIN toolCalls :
         HasExecutor(toolsArg, toolCalls[k].toolName) =>
           \E e \in DOMAIN executed : executed[e] = toolCalls[k].toolCallId
  /\ (threw # {} /\ ~modelFailed) => lpc # "raised"

\* a turn whose first executor threw and whose second returned, and the next
\* generation call has been issued with both outputs in the conversation
Witness_C7 ==
  /\ lpc = "text"
  /\ LET last == currentMessages[Len(currentMessages)]
     IN  /\ last.role = "tool"
         /\ Len(last.content) = 2
         /\ last.content[1].toolCallId \in threw
         /\ last.content[1].payload = ErrorOutput
         /\ last.content[2].toolCallId \notin threw
         /\ last.content[2].payload # ErrorOutput

\* C8: a tool call whose name is not in the tools map, or whose tool has no
\* executor, still gets a tool result with its toolCallId carrying an error, and
\* the loop does not throw.
CE_C8_UnresolvableCallGetsErrorResult ==
  /\ lpc = "exec" =>
       \A k \in DOMAIN toolCalls :
         (k < tcIdx /\ ~HasExecutor(toolsArg, toolCalls[k].toolName)) =>
           ErrorInResults(toolCalls[k].toolCallId)
  /\ ~modelFailed => lpc # "raised"

ExecutedIds == { executed[k] : k \in DOMAIN executed }

\* the for-loop over toolCalls has passed the call
PassedByLoop(id) ==
  \E k \in DOMAIN toolCalls : toolCalls[k].toolCallId = id /\ k < tcIdx

\* C21: a tool call whose input does not match the inputSchema of its tool
\* is not handed to the executor, and once the for-loop has passed it
\* toolResults holds a result with its toolCallId that encodes an error.
CE_C21_InvalidInputYieldsErrorResult ==
  \A id \in invalidInput :
    /\ id \notin ExecutedIds
    /\ (lpc = "exec" /\ PassedByLoop(id)) => ErrorInResults(id)

\* the toolCallIds of a sequence of calls, results or message parts, in order
RECURSIVE IdsOf(_)
IdsOf(items) ==
  IF items = << >> THEN << >>
  ELSE << Head(items).toolCallId >> \o IdsOf(Tail(items))

\* the toolCallIds of those items whose tool has an executor, in order
RECURSIVE ExecutableIds(_)
ExecutableIds(items) ==
  IF items = << >> THEN << >>
  ELSE (IF HasExecutor(toolsArg, Head(items).toolName)
          THEN << Head(items).toolCallId >> ELSE << >>)
         \o ExecutableIds(Tail(items))

\* C24: the executors are invoked in the order in which the backend issued
\* the calls and no call is handed to an executor twice; while the for-loop
\* runs, toolResults holds the results of the calls passed so far that have
\* an executor, in the order of toolCalls; and every tool message of the
\* conversation lists its results in the order of the calls of the assistant
\* message before it.
C24_ToolsRunInOrderOnce ==
  /\ \A i, j \in DOMAIN executed : i < j => executed[i] < executed[j]
  /\ lpc = "exec" =>
       /\ IdsOf(toolResults) = ExecutableIds(SubSeq(toolCalls, 1, tcIdx - 1))
       /\ \A k \in 1..Len(toolResults) :
            executed[Len(executed) - Len(toolResults) + k] = toolResults[k].toolCallId
  /\ \A k \in DOMAIN currentMessages :
       currentMessages[k].role = "tool" =>
         /\ k > 1
         /\ currentMessages[k - 1].role = "assistant"
         /\ IdsOf(currentMessages[k].content)
              = ExecutableIds(currentMessages[k - 1].content)

\* a turn of two calls, both with an executor, the first of which threw, has
\* been executed and appended to the conversation
Witness_C24 ==
  /\ lpc = "loop"
  /\ executed = << 1, 2 >>
  /\ threw = {1}
  /\ Len(currentMessages) > 1
  /\ IdsOf(currentMessages[Len(currentMessages)].content) = << 1, 2 >>
  /\ currentMessages[Len(currentMessages)].role = "tool"

\* the toolCallIds of the parts of a message
PartIds(message) == { message.content[j].toolCallId : j \in DOMAIN message.content }

\* C26: once data() has copied the caller's messages, every change of
\* currentMessages keeps what was there as a prefix and appends exactly one
\* assistant message of tool-call parts followed by one tool message whose
\* parts are tool-result parts for toolCallIds of that assistant message;
\* this has happened once per iteration completed when an iteration starts;
\* and the messages the caller passed stay at the head of the conversation
\* as they were passed.
C26_ConversationIsAppendOnly ==
  /\ [](lpc \notin {"idle", "ready"} =>
          SubSeq(currentMessages, 1, Len(InputMessages)) = InputMessages)
  /\ [](lpc = "text" =>
          Len(currentMessages) = Len(InputMessages) + 2 * (iteration - 1))
  /\ [][(lpc # "ready" /\ currentMessages' # currentMessages) =>
          LET n == Len(currentMessages)
          IN  /\ Len(currentMessages') = n + 2
              /\ SubSeq(currentMessages', 1, n) = currentMessages
              /\ currentMessages'[n + 1].role = "assistant"
              /\ currentMessages'[n + 1].content # << >>
              /\ \A j \in DOMAIN currentMessages'[n + 1].content :
                   currentMessages'[n + 1].content[j].type = "tool-call"
              /\ currentMessages'[n + 2].role = "tool"
              /\ \A j \in DOMAIN currentMessages'[n + 2].content :
                   currentMessages'[n + 2].content[j].type = "tool-result"
              /\ PartIds(currentMessages'[n + 2]) \subseteq PartIds(currentMessages'[n + 1])]_vars

\* the third turn starts on a conversation of the caller's message and two
\* rounds of tool calls
Witness_C26 ==
  /\ lpc = "text"
  /\ iteration = 3
  /\ Len(currentMessages) = Len(InputMessages) + 4
  /\ currentMessages[Len(currentMessages)].role = "tool"
  /\ currentMessages[Len(currentMessages)].content # << >>

----------------------------------------------------------------------------
\* EventSourceWriter (src/src/server/utils.ts)

\* ToolCallPart and ToolResultPart of the ai package carry a type field
ToolCallPart(id) ==
  [typeof |-> "object", type |-> "tool-call", text |-> "", toolCallId |-> id,
   toolName |-> "getDocument"]
ToolResultPart(id) ==
  [typeof |-> "object", type |-> "tool-result", text |-> "", toolCallId |-> id,
   toolName |-> "getDocument"]

\* The chunks a producer may push to the registered queue: a string, the two
\* typed parts, and the ToolCall object that genTextStream pushes.
WriterChunks ==
  { TextChunkOf("a"), ToolCallPart(1), ToolResultPart(1),
    ToolCallChunk([toolCallId |-> 1, toolName |-> "getDocument"]) }

\* the if / else if chain of addMixedQueue's callback: the label of the record
\* it writes, "none" when no branch is taken
MixedLabel(chunk) ==
  IF chunk.typeof = "string" THEN "text"
  ELSE IF chunk.type = "tool-call" THEN "tool-call"
  ELSE IF chunk.type = "tool-result" THEN "tool-result"
  ELSE "none"

EventLine(task, label, index) ==
  [task |-> task, part |-> "event", label |-> label, index |-> index]
DataLine(task, label, index) ==
  [task |-> task, part |-> "data", label |-> label, index |-> index]

WriterFrame == UNCHANGED <<loopVars, routeVars, toolVars, chatVars, clientVars, modelVars>>

\* chunks pushed so far to the registered queue
WPushed == (windex - wsent) + Len(wqueue)

\* the writer of flush in the sink, after those of the sendEvent calls
FlushTask == MaxSendEvents + 1

\* writer.releaseLock() was called: a write on the released writer rejects
Released == wflush = "released"

\* the test of flush with the negation left out
AllQueuesEnded_Always(ended) == TRUE

\* this.#queues.every(queue => queue.ended)
AllQueuesEnded(ended) == \A k \in DOMAIN ended : ended[k]

\* the producer of the registered queue pushes a chunk
WPush ==
  /\ WPushed < MaxWChunks
  /\ ~wended
  /\ WriterFrame
  /\ \E c \in WriterChunks : wqueue' = Append(wqueue, c)
  /\ UNCHANGED <<windex, wtasks, sink, acked, wsent, wended, wflush>>

\* the producer ends the registered queue: queue.end()
WEnd ==
  /\ ~wended
  /\ WriterFrame
  /\ wended' = TRUE
  /\ UNCHANGED <<windex, wqueue, wtasks, sink, acked, wsent, wflush>>

\* mapParallel(cb, 1) starts the callback on the next chunk: const index =
\* this.#index++, then the first write of the branch taken, which rejects
\* once the lock is released
WCallback ==
  /\ 0 \notin wtasks
  /\ wqueue # << >>
  /\ WriterFrame
  /\ LET chunk == Head(wqueue)
         label == MixedLabel(chunk)
     IN  IF label = "none" \/ Released
           THEN UNCHANGED <<sink, wtasks>>
           ELSE /\ sink' = Append(sink, EventLine(0, label, windex))
                /\ wtasks' = wtasks \cup {0}
  /\ windex' = windex + 1
  /\ wqueue' = Tail(wqueue)
  /\ UNCHANGED <<acked, wsent, wended, wflush>>

\* sendEvent(label, data): index: this.#index++, then the first write
WSendEvent ==
  /\ wsent < MaxSendEvents
  /\ WriterFrame
  /\ IF Released
       THEN UNCHANGED <<sink, wtasks>>
       ELSE /\ \E label \in {"meta", "error"} :
                 sink' = Append(sink, EventLine(wsent + 1, label, windex))
            /\ wtasks' = wtasks \cup {wsent + 1}
  /\ windex' = windex + 1
  /\ wsent' = wsent + 1
  /\ UNCHANGED <<wqueue, acked, wended, wflush>>

\* flush(): throws while a registered queue has not ended, else issues its
\* first write.  The done record has no index: the field of its lines is not
\* read.
WFlush ==
  /\ wflush \in {"none", "threw"}
  /\ WriterFrame
  /\ IF AllQueuesEnded(<< wended >>)
       THEN /\ sink' = Append(sink, EventLine(FlushTask, "done", 0))
            /\ wtasks' = wtasks \cup {FlushTask}
            /\ wflush' = "event"
       ELSE /\ wflush' = "threw"
            /\ UNCHANGED <<sink, wtasks>>
  /\ UNCHANGED <<windex, wqueue, acked, wsent, wended>>

\* The sink takes the lines in the order of the write calls, and the promise of
\* a write resolves when its line is taken; the writer awaiting it resumes
\* before the next promise resolves: after its event line it writes its data
\* line, which rejects once the lock is released; after its data line it is
\* finished, and flush releases the lock.
WWriteResolved ==
  /\ acked < Len(sink)
  /\ WriterFrame
  /\ LET line == sink[acked + 1]
     IN  IF line.part = "event" /\ ~Released
           THEN /\ sink' = Append(sink, DataLine(line.task, line.label, line.index))
                /\ wflush' = IF line.task = FlushTask THEN "data" ELSE wflush
                /\ UNCHANGED wtasks
           ELSE /\ wtasks' = wtasks \ {line.task}
                /\ wflush' = IF line.task = FlushTask THEN "released" ELSE wflush
                /\ UNCHANGED sink
  /\ acked' = acked + 1
  /\ UNCHANGED <<windex, wqueue, wsent, wended>>

\* toMixedSSEStream(queue) has returned the writer
InitWriter ==
  /\ LoopInitWith("none", "idle")
  /\ RouteIdle
  /\ WriterIdle
  /\ ToolsIdle
  /\ ChatIdle
  /\ ClientIdle
  /\ ModelsIdle

NextWriter ==
  \/ WPush
  \/ WEnd
  \/ WCallback
  \/ WSendEvent
  \/ WFlush
  \/ WWriteResolved

SpecWriter == InitWriter /\ [][NextWriter]_vars

\* the records written to the sink: a record is its data line, which carries
\* the index
IsDataLine(l) == l.part = "data" /\ l.label # "done"
RecordsWritten == SelectSeq(sink, IsDataLine)

\* C1: the index values of the records written to the sink are, in write order,
\* 0, 1, ..., n-1, for every kind of chunk drained by addMixedQueue and every
\* interleaving with sendEvent.
CE_C1_IndexesAreDense ==
  \A k \in DOMAIN RecordsWritten : RecordsWritten[k].index = k - 1

\* C27: the line that follows an event line in the sink is the data line of
\* the same record, under every interleaving of the callback of the queue
\* with sendEvent calls.
CE_C27_RecordsAreContiguous ==
  \A k \in DOMAIN sink :
    (sink[k].part = "event" /\ k < Len(sink)) =>
      /\ sink[k + 1].part = "data"
      /\ sink[k + 1].task = sink[k].task
      /\ sink[k + 1].index = sink[k].index

\* the place in the sink of the event line of the done record, 0 before flush
\* has written it
DonePosition ==
  IF \E k \in DOMAIN sink : sink[k].task = FlushTask
    THEN CHOOSE k \in DOMAIN sink :
           sink[k].task = FlushTask /\ sink[k].part = "event"
    ELSE 0

\* C28: once flush has succeeded, no chunk of the queue is left to be written
\* and both lines of every chunk written stand before the done record, under
\* every interleaving of the callback of the queue with flush.
CE_C28_DoneRecordIsLast ==
  Released =>
    /\ \A k \in DOMAIN wqueue : MixedLabel(wqueue[k]) = "none"
    /\ 0 \notin wtasks
    /\ \A k \in DOMAIN sink : sink[k].task = 0 => k < DonePosition

\* C29: a call of flush while the registered queue has not ended throws and
\* changes neither the sink nor the lock, and flush has written a line of the
\* done record or released the lock only when the queue has ended.
C29_FlushRefusesOpenQueue ==
  /\ [](\A k \in DOMAIN sink : sink[k].task = FlushTask => wended)
  /\ [](wflush \in {"event", "data", "released"} => wended)
  /\ [][(~wended /\ wflush' # wflush) =>
          /\ wflush' = "threw"
          /\ sink' = sink
          /\ wtasks' = wtasks]_vars

\* flush has thrown on an open queue while a record of a chunk was being
\* written and another chunk was waiting
Witness_C29 ==
  /\ wflush = "threw"
  /\ ~wended
  /\ 0 \in wtasks
  /\ wqueue # << >>

----------------------------------------------------------------------------
\* POST /api/chat (src/src/app/api/chat/route.ts), from the start of the
\* response stream.  The file holds two handlers.  Handler 1
\* (createStreamingResponse) awaits queue.map before it calls data(); handler 2
\* (the earlier POST) calls data() in the background, without tools, and then
\* awaits queue.map.

\* messages[0] in place of messages[messages.length - 1]
LatestIndex_First(msgs) == 1

\* the place of messages[messages.length - 1], places counted from 1
LatestIndex(msgs) == Len(msgs)

\* the content of the message at a place of the body: the client sends the
\* history "p" followed by the new message "q"
ContentAt(msgs, k) == IF k = Len(msgs) THEN "q" ELSE "p"

\* role of messages[messages.length - 1]
LastRole == reqMessages[LatestIndex(reqMessages)]

\* the row of the request's last message: insertMessage(chatId, latestUserMessage)
LastMessageRow ==
  [role |-> LastRole,
   content |-> ContentAt(reqMessages, LatestIndex(reqMessages))]

\* the row createChatWithFirstMessage inserts: handler 1 passes the last
\* message, handler 2 passes the role 'user' with the content of the last message
FirstMessageRow ==
  [role |-> IF variant = 2 THEN "user" ELSE LastRole,
   content |-> ContentAt(reqMessages, LatestIndex(reqMessages))]

\* the bodies a request may carry: messages is not an array, or an array of up
\* to MaxMessages messages
MessageRoles == {"user", "assistant"}
MessageLists == UNION { [1..n -> MessageRoles] : n \in 0..MaxMessages }

\* data: {type: 'text', content: chunk, chatId}
TextRecord(chunk) ==
  [type |-> "text", content |-> chunk.text, toolCallId |-> 0, name |-> ""]
\* data: {type: 'tool_call', toolCall: {id, name, args}, chatId}
ToolCallRecord(chunk) ==
  [type |-> "tool_call", content |-> "", toolCallId |-> chunk.toolCallId,
   name |-> chunk.toolName]
\* data: {done: true, chatId}
DoneRecord == [type |-> "done", content |-> "", toolCallId |-> 0, name |-> ""]

\* the assignment with = in place of +=
AppendResponse_Overwrite(response, chunk) == chunk.text

\* assistantResponse += chunk
AppendResponse(response, chunk) == response \o chunk.text

\* the record the map callback enqueues for a chunk
RecordOf(chunk) ==
  IF chunk.typeof = "string" THEN TextRecord(chunk) ELSE ToolCallRecord(chunk)

\* insertMessage(chatId, {role: 'assistant', content: response})
AssistantRow(response) == [role |-> "assistant", content |-> response]

\* the streaming steps change neither the request nor what POST did before
RouteFrame ==
  UNCHANGED <<writerVars, toolVars, chatVars, clientVars, modelVars, reqVars, status,
              userUpserts>>

\* the steps of POST before the stream: they touch neither data() nor the stream
PostFrame ==
  UNCHANGED <<writerVars, toolVars, chatVars, clientVars, modelVars, loopVars,
              reqVars, consumed, assistantResponse, stream>>

\* authenticateUser: throws 'Unauthorized' without a userId; POST answers 401
PAuthenticate ==
  /\ rpc = "auth"
  /\ PostFrame
  /\ IF authed
       THEN rpc' = "parse" /\ UNCHANGED status
       ELSE rpc' = "rejected" /\ status' = 401
  /\ UNCHANGED <<userUpserts, streamState, dbMessages, chatTouched, dbCalls>>

\* await req.json(); if (!messages || !Array.isArray(messages)) return 400
PParseBody ==
  /\ rpc = "parse"
  /\ PostFrame
  /\ IF reqValid
       THEN rpc' = "upsert" /\ UNCHANGED status
       ELSE rpc' = "rejected" /\ status' = 400
  /\ UNCHANGED <<userUpserts, streamState, dbMessages, chatTouched, dbCalls>>

\* await upsertUser(userId, userName)
PUpsertUser ==
  /\ rpc = "upsert"
  /\ PostFrame
  /\ userUpserts' = userUpserts + 1
  /\ dbCalls' = Append(dbCalls, "upsertUser")
  /\ rpc' = "chat"
  /\ UNCHANGED <<status, streamState, dbMessages, chatTouched>>

\* getOrCreateChat with a chatId: getChatById; a chat that is missing or of
\* another user throws and POST answers 404
PGetChat ==
  /\ rpc = "chat"
  /\ reqChat # "none"
  /\ PostFrame
  /\ dbCalls' = Append(dbCalls, "getChatById")
  /\ IF reqChat = "own"
       THEN rpc' = "userMessage" /\ UNCHANGED status
       ELSE rpc' = "rejected" /\ status' = 404
  /\ UNCHANGED <<userUpserts, streamState, dbMessages, chatTouched>>

\* getOrCreateChat without chatId: the chat is created with the last message;
\* with no message, userMessage is undefined, reading its content throws a
\* TypeError and POST answers 500
PCreateChat ==
  /\ rpc = "chat"
  /\ reqChat = "none"
  /\ PostFrame
  /\ IF reqMessages = << >>
       THEN /\ rpc' = "rejected"
            /\ status' = 500
            /\ UNCHANGED <<dbMessages, dbCalls>>
       ELSE /\ dbCalls' = Append(dbCalls, "createChatWithFirstMessage")
            /\ dbMessages' = Append(dbMessages, FirstMessageRow)
            /\ rpc' = "respond"
            /\ UNCHANGED status
  /\ UNCHANGED <<userUpserts, streamState, chatTouched>>

\* the guards of storeUserMessage: messages.length > 0 and
\* latestUserMessage.role === 'user'
StoresUserMessage(msgs) ==
  msgs # << >> /\ msgs[LatestIndex(msgs)] = "user"

\* if (chatId) storeUserMessage: nothing to store
PSkipUserMessage ==
  /\ rpc = "userMessage"
  /\ ~StoresUserMessage(reqMessages)
  /\ PostFrame
  /\ rpc' = "respond"
  /\ UNCHANGED <<status, userUpserts, streamState, dbMessages, chatTouched, dbCalls>>

\* if (chatId) storeUserMessage: await insertMessage(chatId, latestUserMessage)
PStoreUserMessage ==
  /\ rpc = "userMessage"
  /\ StoresUserMessage(reqMessages)
  /\ PostFrame
  /\ dbCalls' = Append(dbCalls, "insertMessage")
  /\ dbMessages' = Append(dbMessages, LastMessageRow)
  /\ rpc' = "respond"
  /\ UNCHANGED <<status, userUpserts, streamState, chatTouched>>

\* the call the handler is about to make to the database client before the
\* stream, "none" when it is about to make none
PendingCall ==
  IF rpc = "upsert" THEN "upsertUser"
  ELSE IF rpc = "chat" /\ reqChat # "none" THEN "getChatById"
  ELSE IF rpc = "chat" /\ reqMessages # << >> THEN "createChatWithFirstMessage"
  ELSE IF rpc = "userMessage" /\ StoresUserMessage(reqMessages) THEN "insertMessage"
  ELSE "none"

\* a call to the database client rejects before the stream: the catch block of
\* POST answers 500
PDatabaseFails ==
  /\ PendingCall # "none"
  /\ PostFrame
  /\ dbCalls' = Append(dbCalls, PendingCall)
  /\ rpc' = "rejected"
  /\ status' = 500
  /\ UNCHANGED <<userUpserts, streamState, dbMessages, chatTouched>>

\* return new Response(stream, ...): the stream is constructed and start runs
PRespond ==
  /\ rpc = "respond"
  /\ PostFrame
  /\ status' = 200
  /\ streamState' = "open"
  /\ rpc' = "start"
  /\ UNCHANGED <<userUpserts, dbMessages, chatTouched, dbCalls>>

\* start(controller): genTextStream returns {queue, data}; handler 2 calls
\* data() at once, handler 1 does not; both then await queue.map
RStart ==
  /\ rpc = "start"
  /\ RouteFrame
  /\ rpc' = "map"
  /\ IF variant = 1
       THEN /\ toolsArg' = "map"
            /\ lpc' = "ready"
            /\ UNCHANGED <<allText, currentMessages, iteration>>
       ELSE /\ toolsArg' = "none"
            /\ lpc' = "loop"
            /\ allText' = ""
            /\ currentMessages' = InputMessages
            /\ iteration' = 0
  /\ UNCHANGED <<toolCalls, tcIdx, toolResults, queue, queueEnded, genCalls, nextId,
                 chunksOut, threw, executed, modelFailed, invalidInput>>
  /\ UNCHANGED <<consumed, assistantResponse, stream, streamState,
                 dbMessages, chatTouched, dbCalls>>

\* the callback of queue.map on the next chunk, the stream being open
RMapCallback ==
  /\ rpc = "map"
  /\ consumed < Len(queue)
  /\ streamState = "open"
  /\ RouteFrame
  /\ LET chunk == queue[consumed + 1]
     IN  /\ assistantResponse' =
              IF chunk.typeof = "string"
                THEN AppendResponse(assistantResponse, chunk)
                ELSE assistantResponse
         /\ stream' = Append(stream, RecordOf(chunk))
  /\ consumed' = consumed + 1
  /\ UNCHANGED <<rpc, streamState, dbMessages, chatTouched, dbCalls>>
  /\ UNCHANGED loopVars

\* the client disconnects: the runtime cancels the response stream.  The
\* underlying source passed to new ReadableStream has no cancel method, and
\* genTextStream takes no abort signal: nothing else changes.
RClientCancels ==
  /\ streamState = "open"
  /\ rpc \in {"map", "store", "data", "touch", "done"}
  /\ RouteFrame
  /\ streamState' = "cancelled"
  /\ UNCHANGED <<rpc, consumed, assistantResponse, stream, dbMessages, chatTouched,
                 dbCalls>>
  /\ UNCHANGED loopVars

\* the callback on the next chunk of a stream that is errored or cancelled:
\* controller.enqueue throws a TypeError, queue.map rejects, and the catch
\* block calls controller.error
RMapCallbackThrows ==
  /\ rpc = "map"
  /\ consumed < Len(queue)
  /\ streamState # "open"
  /\ RouteFrame
  /\ LET chunk == queue[consumed + 1]
     IN  assistantResponse' =
           IF chunk.typeof = "string"
             THEN AppendResponse(assistantResponse, chunk)
             ELSE assistantResponse
  /\ consumed' = consumed + 1
  /\ rpc' = "caught"
  /\ UNCHANGED <<stream, streamState, dbMessages, chatTouched, dbCalls>>
  /\ UNCHANGED loopVars

\* handler 2: data().catch(err => controller.error(err))
RDataCatch ==
  /\ variant = 2
  /\ lpc = "raised"
  /\ streamState = "open"
  /\ RouteFrame
  /\ streamState' = "errored"
  /\ UNCHANGED <<rpc, consumed, assistantResponse, stream, dbMessages,
                 chatTouched, dbCalls>>
  /\ UNCHANGED loopVars

\* a queue that data() would end when it fails as well
MapResolves_OnFailure == (queueEnded \/ lpc = "raised") /\ consumed = Len(queue)

\* await queue.map(...) goes on: the queue has ended, which only the last
\* statement of data() does, and every chunk went through the callback
MapResolves == queueEnded /\ consumed = Len(queue)

\* the promise of queue.map resolves: the queue has ended and every chunk went
\* through the callback.  Handler 2 goes on to store; handler 1 now calls
\* data() and awaits it.
RMapResolved ==
  /\ rpc = "map"
  /\ MapResolves
  /\ RouteFrame
  /\ IF variant = 1
       THEN /\ rpc' = "data"
            /\ lpc' = "loop"
            /\ allText' = ""
            /\ currentMessages' = MessagesWithSystem
            /\ iteration' = 0
       ELSE /\ rpc' = "store"
            /\ UNCHANGED <<lpc, allText, currentMessages, iteration>>
  /\ UNCHANGED <<toolsArg, toolCalls, tcIdx, toolResults, queue, queueEnded, genCalls,
                 nextId, chunksOut, threw, executed, modelFailed, invalidInput>>
  /\ UNCHANGED <<consumed, assistantResponse, stream, streamState,
                 dbMessages, chatTouched, dbCalls>>

\* the handler is about to store: handler 2 after queue.map, handler 1 after
\* await data()
AtStore == rpc = "store" \/ (rpc = "data" /\ lpc = "returned")

\* the guard of storeAssistantResponse dropped
ShouldStore_Always(response) == TRUE

\* if (response)
ShouldStore(response) == response # ""

\* storeAssistantResponse with an empty response: nothing is stored
RStoreNothing ==
  /\ AtStore
  /\ ~ShouldStore(assistantResponse)
  /\ RouteFrame
  /\ rpc' = "done"
  /\ UNCHANGED <<consumed, assistantResponse, stream, streamState,
                 dbMessages, chatTouched, dbCalls>>
  /\ UNCHANGED loopVars

\* storeAssistantResponse: await insertMessage(...)
RInsertAssistant ==
  /\ AtStore
  /\ ShouldStore(assistantResponse)
  /\ RouteFrame
  /\ dbCalls' = Append(dbCalls, "insertMessage")
  /\ dbMessages' = Append(dbMessages, AssistantRow(assistantResponse))
  /\ rpc' = "touch"
  /\ UNCHANGED <<consumed, assistantResponse, stream, streamState,
                 chatTouched>>
  /\ UNCHANGED loopVars

\* storeAssistantResponse: await updateChatTimestamp(chatId)
RTouchChat ==
  /\ rpc = "touch"
  /\ RouteFrame
  /\ chatTouched' = chatTouched + 1
  /\ dbCalls' = Append(dbCalls, "updateChatTimestamp")
  /\ rpc' = "done"
  /\ UNCHANGED <<consumed, assistantResponse, stream, streamState,
                 dbMessages>>
  /\ UNCHANGED loopVars

\* the rejection taken as if the call had returned
AfterRejectedStore_Swallowed == "done"

\* where start(controller) goes on when a call of storeAssistantResponse
\* rejects: the await throws inside the try, so the catch block
AfterRejectedStore == "caught"

\* insertMessage or updateChatTimestamp rejects: the catch block
RPersistenceFails ==
  /\ \/ /\ AtStore /\ ShouldStore(assistantResponse)
        /\ dbCalls' = Append(dbCalls, "insertMessage")
     \/ /\ rpc = "touch"
        /\ dbCalls' = Append(dbCalls, "updateChatTimestamp")
  /\ RouteFrame
  /\ rpc' = AfterRejectedStore
  /\ UNCHANGED <<consumed, assistantResponse, stream, streamState,
                 dbMessages, chatTouched>>
  /\ UNCHANGED loopVars

\* catch (error) { controller.error(error) }: no effect on a stream that is
\* already errored
RCatch ==
  /\ \/ rpc = "caught"
     \/ rpc = "data" /\ lpc = "raised"
  /\ RouteFrame
  /\ streamState' = IF streamState = "open" THEN "errored" ELSE streamState
  /\ rpc' = "failed"
  /\ UNCHANGED <<consumed, assistantResponse, stream, dbMessages,
                 chatTouched, dbCalls>>
  /\ UNCHANGED loopVars

\* sendDoneSignal on a cancelled stream: controller.enqueue throws a
\* TypeError, which the catch block takes
RSendDoneThrows ==
  /\ rpc = "done"
  /\ streamState # "open"
  /\ RouteFrame
  /\ rpc' = "caught"
  /\ UNCHANGED <<consumed, assistantResponse, stream, streamState, dbMessages,
                 chatTouched, dbCalls>>
  /\ UNCHANGED loopVars

\* sendDoneSignal: controller.enqueue(done); controller.close()
RSendDone ==
  /\ rpc = "done"
  /\ streamState = "open"
  /\ RouteFrame
  /\ stream' = Append(stream, DoneRecord)
  /\ streamState' = "closed"
  /\ rpc' = "finished"
  /\ UNCHANGED <<consumed, assistantResponse, dbMessages, chatTouched, dbCalls>>
  /\ UNCHANGED loopVars

\* a request arrives at POST
InitRoute ==
  /\ LoopInitWith("none", "idle")
  /\ variant \in {1, 2}
  /\ authed \in BOOLEAN
  /\ reqChat \in {"none", "own", "other", "missing"}
  /\ reqValid \in BOOLEAN
  /\ reqMessages \in (IF reqValid THEN MessageLists ELSE {<< >>})
  /\ status = 0
  /\ userUpserts = 0
  /\ rpc = "auth"
  /\ consumed = 0
  /\ assistantResponse = ""
  /\ stream = << >>
  /\ streamState = "none"
  /\ dbMessages = << >>
  /\ chatTouched = 0
  /\ dbCalls = << >>
  /\ WriterIdle
  /\ ToolsIdle
  /\ ChatIdle
  /\ ClientIdle
  /\ ModelsIdle

\* The steps of data() that a handler can reach: handler 2 passes no tools, so
\* the backend has no tool to call, and handler 1 never gets to call data().
NextRoute ==
  \/ PAuthenticate
  \/ PParseBody
  \/ PUpsertUser
  \/ PGetChat
  \/ PCreateChat
  \/ PSkipUserMessage
  \/ PStoreUserMessage
  \/ PDatabaseFails
  \/ PRespond
  \/ RStart
  \/ RMapCallback
  \/ RClientCancels
  \/ RMapCallbackThrows
  \/ RDataCatch
  \/ RMapResolved
  \/ RStoreNothing
  \/ RInsertAssistant
  \/ RTouchChat
  \/ RPersistenceFails
  \/ RCatch
  \/ RSendDoneThrows
  \/ RSendDone
  \/ StartIteration
  \/ TextChunk
  \/ ModelFails
  \/ NoToolCalls
  \/ EndQueue

SpecRoute == InitRoute /\ [][NextRoute]_vars

\* A step of the handler or of data(): every step of the endpoint but the
\* disconnection of the client, which is up to the client.
RouteProgress ==
  NextRoute /\ (streamState' = "cancelled" => streamState = "cancelled")

\* The runtime resumes a handler whose awaited promise has settled, and the
\* backend answers every call (with chunks, an end or a failure): a step of
\* the handler or of data() that stays possible is taken.
SpecRouteLive == SpecRoute /\ WF_vars(RouteProgress)

----------------------------------------------------------------------------
\* Properties of the chat endpoint, checked under SpecRoute

IsDoneRecord(r) == r.type = "done"
IsErrorRecord(r) == r.type = "error"

RECURSIVE ConcatStreamText(_)
ConcatStreamText(records) ==
  IF records = << >> THEN ""
  ELSE (IF Head(records).type = "text" THEN Head(records).content ELSE "")
         \o ConcatStreamText(Tail(records))

\* the response stream is over: closed by sendDoneSignal or errored
StreamOver == streamState \in {"closed", "errored"}

\* the request left the normal path: the backend failed, or the catch block ran
OnErrorPath == modelFailed \/ rpc \in {"caught", "failed"}

\* C4: when the response stream of a started request is over, exactly one done
\* record was written and it is the last record; on an error path an error
\* record precedes it.
CE_C4_ExactlyOneDoneLast ==
  StreamOver =>
    /\ Len(SelectSeq(stream, IsDoneRecord)) = 1
    /\ IsDoneRecord(stream[Len(stream)])
    /\ OnErrorPath => \E k \in 1..(Len(stream) - 1) : IsErrorRecord(stream[k])

\* C9: a backend failure during a turn reaches the client as an error record
\* followed by a done record, on a stream that is closed, not errored.
CE_C9_ModelFailureIsErrorThenDone ==
  (modelFailed /\ streamState # "open") =>
    /\ streamState = "closed"
    /\ Len(stream) >= 2
    /\ IsErrorRecord(stream[Len(stream) - 1])
    /\ IsDoneRecord(stream[Len(stream)])

\* C10: once the assistant message of a request is stored, its content is the
\* concatenation, in stream order, of the content of the text records enqueued
\* on the response stream, and it is the text data() returned.
C10_PersistedEqualsStreamed ==
  (rpc \in {"touch", "done", "finished"} /\ ConcatStreamText(stream) # "") =>
    /\ dbMessages # << >>
    /\ dbMessages[Len(dbMessages)].role = "assistant"
    /\ dbMessages[Len(dbMessages)].content = ConcatStreamText(stream)
    /\ dbMessages[Len(dbMessages)].content = allText

\* a request has completed: two text records were streamed, the transcript is
\* stored and the stream is closed
Witness_C10 ==
  /\ rpc = "finished"
  /\ streamState = "closed"
  /\ Len(SelectSeq(stream, LAMBDA r : r.type = "text")) = 2
  /\ dbMessages[Len(dbMessages)] = [role |-> "assistant", content |-> "ab"]

\* the client has closed the transport
Cancelled == streamState = "cancelled"

\* C16: once the client has closed the transport, an attempt of the handler to
\* emit a record writes nothing and does not throw: the stream gets no further
\* record, and neither the map callback nor sendDoneSignal ends in the catch
\* block.
CE_C16_EmitAfterCloseIsNoOp ==
  [][Cancelled =>
       /\ stream' = stream
       /\ ~(rpc \in {"map", "done"} /\ rpc' = "caught")]_vars

IsPrefix(s, t) == Len(s) <= Len(t) /\ SubSeq(t, 1, Len(s)) = s

\* the request was accepted: POST returned the streaming Response
Accepted == status = 200

\* the request carries a new user message: its last message has the role user
HasInboundUserMessage == reqMessages # << >> /\ LastRole = "user"

\* the calls to the database client before the stream, as claimed: ensure the
\* user, resolve or create the chat (creation records the first message), one
\* insert for the inbound user message of an existing chat
CallsBeforeStream ==
  << "upsertUser" >>
    \o (IF reqChat = "none" THEN << "createChatWithFirstMessage" >>
                            ELSE << "getChatById" >>)
    \o (IF reqChat # "none" /\ HasInboundUserMessage THEN << "insertMessage" >>
                                                     ELSE << >>)

\* the calls after the loop, as claimed
CallsAfterLoop(transcript) ==
  IF transcript # "" THEN << "insertMessage", "updateChatTimestamp" >> ELSE << >>

UserRows == { k \in DOMAIN dbMessages : dbMessages[k].role = "user" }
AssistantRows == { k \in DOMAIN dbMessages : dbMessages[k].role = "assistant" }

\* C12: the calls of an accepted request to the database client are, in order,
\* upsertUser once, the resolution or creation of the chat once, one insert for
\* the inbound user message, and after the loop has completed the insert of a
\* non-empty assistant transcript immediately followed by updateChatTimestamp;
\* with an empty transcript neither call is made.  The inbound user message is
\* recorded exactly once, and no assistant transcript before data() returned.
C12_PersistenceCallsInOrder ==
  /\ Accepted => IsPrefix(CallsBeforeStream, dbCalls)
  /\ (Accepted /\ rpc \notin {"done", "finished"}) =>
       IsPrefix(dbCalls, CallsBeforeStream \o CallsAfterLoop("x"))
  /\ (Accepted /\ rpc \in {"done", "finished"}) =>
       dbCalls = CallsBeforeStream \o CallsAfterLoop(assistantResponse)
  /\ (Accepted /\ HasInboundUserMessage) =>
       /\ UserRows = {1}
       /\ dbMessages[1] = [role |-> "user", content |-> "q"]
  /\ Len(dbCalls) > Len(CallsBeforeStream) => lpc = "returned"
  /\ userUpserts <= 1 /\ chatTouched <= 1

\* a request on an existing chat has completed with a non-empty transcript:
\* all five calls were made
Witness_C12 ==
  /\ rpc = "finished"
  /\ reqChat = "own"
  /\ Len(reqMessages) = MaxMessages
  /\ dbCalls = << "upsertUser", "getChatById", "insertMessage", "insertMessage",
                  "updateChatTimestamp" >>
  /\ dbMessages = << [role |-> "user", content |-> "q"],
                     [role |-> "assistant", content |-> "ab"] >>

\* the number of calls of a function of the database client made so far
CallsOf(name) == Cardinality({ k \in DOMAIN dbCalls : dbCalls[k] = name })

\* C30: the last message of an accepted request, when its role is user, is
\* stored in exactly one row: without chatId by createChatWithFirstMessage alone
\* (no insert before data() has returned), with a chatId by the one
\* insertMessage made before the stream; no row holds a message of the history
\* before it.
C30_LastUserMessageStoredOnce ==
  (Accepted /\ reqMessages # << >> /\ reqMessages[Len(reqMessages)] = "user") =>
    /\ dbMessages # << >>
    /\ dbMessages[1] = [role |-> "user", content |-> "q"]
    /\ \A k \in DOMAIN dbMessages :
         k > 1 => (dbMessages[k].role = "assistant" /\ lpc = "returned")
    /\ \A k \in DOMAIN dbMessages : dbMessages[k].content # "p"
    /\ Len(dbMessages) <= 2
    /\ IF reqChat = "none"
         THEN /\ CallsOf("createChatWithFirstMessage") = 1
              /\ SubSeq(dbCalls, 1, 2) = << "upsertUser", "createChatWithFirstMessage" >>
              /\ Len(dbCalls) > 2 => lpc = "returned"
         ELSE /\ CallsOf("createChatWithFirstMessage") = 0
              /\ SubSeq(dbCalls, 1, 3) = << "upsertUser", "getChatById", "insertMessage" >>
              /\ Len(dbCalls) > 3 => lpc = "returned"

\* a request without chatId whose body is a history of user messages followed
\* by a new one has completed: one user row and the transcript
Witness_C30 ==
  /\ rpc = "finished"
  /\ Accepted
  /\ reqChat = "none"
  /\ Len(reqMessages) = MaxMessages
  /\ \A k \in DOMAIN reqMessages : reqMessages[k] = "user"
  /\ dbCalls = << "upsertUser", "createChatWithFirstMessage", "insertMessage",
                  "updateChatTimestamp" >>
  /\ Len(dbMessages) = 2

\* the response stream does not wait for the handler any more: it is closed
\* or errored, or the client has cancelled it
StreamSettled == StreamOver \/ streamState = "cancelled"

\* start(controller) has returned: after sendDoneSignal or after the catch block
StartReturned == rpc \in {"finished", "failed"}

\* C31: a response stream that was started is eventually closed or errored,
\* and in the handler that runs data() in the background a failure of data()
\* leads to the end of the queue consumer (start returns).
CE_C31_StreamEventuallyOver ==
  /\ (streamState = "open") ~> StreamSettled
  /\ (variant = 2 /\ lpc = "raised") ~> StartReturned

\* the calls made to the database client since the stream was started
CallsInStream == SubSeq(dbCalls, Len(CallsBeforeStream) + 1, Len(dbCalls))

\* a call of storeAssistantResponse was rejected
StoreRejected ==
  /\ Accepted
  /\ \/ CallsInStream = << "insertMessage" >> /\ AssistantRows = {}
     \/ CallsInStream = << "insertMessage", "updateChatTimestamp" >> /\ chatTouched = 0

\* the client can observe the done record
DoneSent == \E k \in DOMAIN stream : IsDoneRecord(stream[k])

\* C33: when the stream holds the done record, storeAssistantResponse has
\* returned: a non-empty transcript is the row inserted last and the chat was
\* touched, an empty one left no call; when a call of storeAssistantResponse
\* was rejected the stream holds no done record, is never closed, and is
\* errored once the catch block has run (unless the client had cancelled it).
C33_DoneOnlyAfterStore ==
  /\ DoneSent =>
       /\ lpc = "returned"
       /\ ~StoreRejected
       /\ IF assistantResponse # ""
            THEN /\ CallsInStream = << "insertMessage", "updateChatTimestamp" >>
                 /\ dbMessages[Len(dbMessages)] = AssistantRow(assistantResponse)
                 /\ chatTouched = 1
            ELSE CallsInStream = << >>
  /\ StoreRejected =>
       /\ ~DoneSent
       /\ streamState # "closed"
       /\ rpc \in {"caught", "failed"}
       /\ rpc = "failed" => streamState \in {"errored", "cancelled"}

\* the done record of a new chat is in the stream, behind the text, and the
\* transcript is stored
Witness_C33 ==
  /\ DoneSent
  /\ Len(stream) > 1
  /\ reqChat = "none"
  /\ streamState = "closed"
  /\ dbMessages[Len(dbMessages)] = AssistantRow("ab")

\* a call of storeAssistantResponse was rejected and the catch block has
\* errored the stream, which holds text
StoreRejectedSeen ==
  StoreRejected /\ rpc = "failed" /\ streamState = "errored" /\ stream # << >>

\* the records of the chunks in the stream
IsChunkRecord(r) == ~IsDoneRecord(r)
ChunkRecords == SelectSeq(stream, IsChunkRecord)

\* controller.enqueue threw in the callback of queue.map: a chunk went through
\* the callback and left no record
EnqueueThrew == consumed > Len(ChunkRecords)

\* the stream failed before its completion: the backend failed in data(), or
\* an enqueue of the map callback threw
FailedBeforeCompletion == Accepted /\ (modelFailed \/ EnqueueThrew)

\* the rows stored before the stream was started
RowsBeforeStream ==
  IF reqChat = "none" THEN << FirstMessageRow >>
  ELSE IF HasInboundUserMessage THEN << LastMessageRow >>
  ELSE << >>

AnsweredBeforeStream == rpc = "rejected"

\* C13: a request without an authenticated user, or with a chatId that does not
\* exist or belongs to another user, is answered 401 or 404 with no stream, no
\* generation call, no stream record and no message row; and no other failure
\* is answered before the stream has started.
CE_C13_OnlyAuthFailuresBeforeStream ==
  /\ (AnsweredBeforeStream /\ status \in {401, 404}) =>
       /\ streamState = "none"
       /\ genCalls = 0
       /\ stream = << >>
       /\ dbMessages = << >>
  /\ AnsweredBeforeStream =>
       /\ status \in {401, 404}
       /\ ~authed \/ reqChat \in {"other", "missing"}

----------------------------------------------------------------------------
\* createTools(userId) (src/src/app/api/chat/route.ts) over the documents
\* table (src/src/server/db/client.ts): the executors of two requests, of two
\* distinct users, interleave at every await.

\* the users of the two requests
Actors == {"A", "B"}

\* rows of the documents table, at most
MaxDocs == 3
\* tool executions of the two requests together, at most
MaxToolRuns == 3

\* executeTakeFirst() without a row: undefined
NoDocument == [user_id |-> "", content |-> "", missing |-> TRUE]

\* getDocumentById(documentId)
getDocumentById(id) ==
  IF id \in DOMAIN documents /\ ~documents[id].missing
    THEN documents[id]
    ELSE NoDocument

\* getDocumentsByUserId(userId): the ids of the rows where user_id = userId
getDocumentsByUserId(userId) ==
  { id \in DOMAIN documents :
      ~documents[id].missing /\ documents[id].user_id = userId }

\* the check with the comparison of user_id left out
Owns_AnyExisting(document, userId) == ~document.missing

\* the negation of: if (!document || document.user_id !== userId)
Owns(document, userId) == ~document.missing /\ document.user_id = userId

\* what an executor returned: owners are the user_id values of the rows whose
\* fields the result carries, seen is the user_id of the row the executor read
ToolReturn(actor, tool, id, success, owners, seen) ==
  [actor |-> actor, tool |-> tool, id |-> id, success |-> success,
   owners |-> owners, seen |-> seen]

IdleExec == [pc |-> "idle", tool |-> "", id |-> 0, document |-> NoDocument]

\* executions started so far
ToolRuns == Len(tresults) + Cardinality({ a \in Actors : texec[a].pc # "idle" })

ToolFrame == UNCHANGED <<loopVars, routeVars, writerVars, chatVars, clientVars, modelVars>>

\* createDocument.execute: await createDocument(userId, title, content)
TCreateDocument ==
  /\ ToolFrame
  /\ ToolRuns < MaxToolRuns
  /\ Len(documents) < MaxDocs
  /\ \E a \in Actors :
       /\ texec[a].pc = "idle"
       /\ documents' = Append(documents,
                              [user_id |-> a, content |-> a, missing |-> FALSE])
       /\ tresults' = Append(tresults,
                             ToolReturn(a, "createDocument", Len(documents) + 1, TRUE,
                                        {a}, ""))
  /\ UNCHANGED <<texec, tupdates>>

\* listDocuments.execute: await getDocumentsByUserId(userId)
TListDocuments ==
  /\ ToolFrame
  /\ ToolRuns < MaxToolRuns
  /\ \E a \in Actors :
       /\ texec[a].pc = "idle"
       /\ tresults' = Append(tresults,
                             ToolReturn(a, "listDocuments", 0, TRUE,
                                        { documents[id].user_id :
                                            id \in getDocumentsByUserId(a) }, ""))
  /\ UNCHANGED <<documents, texec, tupdates>>

\* updateDocument.execute and getDocument.execute up to their first await:
\* const document = await getDocumentById(params.id)
TGetDocumentById ==
  /\ ToolFrame
  /\ ToolRuns < MaxToolRuns
  /\ \E a \in Actors, tool \in {"updateDocument", "getDocument"},
        id \in 1..(MaxDocs + 1) :
       /\ texec[a].pc = "idle"
       /\ texec' = [texec EXCEPT ![a] = [pc |-> "read", tool |-> tool, id |-> id,
                                         document |-> getDocumentById(id)]]
  /\ UNCHANGED <<documents, tresults, tupdates>>

\* if (!document || document.user_id !== userId) return {success: false, ...}
TRefuse ==
  /\ ToolFrame
  /\ \E a \in Actors :
       /\ texec[a].pc = "read"
       /\ ~Owns(texec[a].document, a)
       /\ tresults' = Append(tresults,
                             ToolReturn(a, texec[a].tool, texec[a].id, FALSE, {},
                                        texec[a].document.user_id))
       /\ texec' = [texec EXCEPT ![a] = IdleExec]
  /\ UNCHANGED <<documents, tupdates>>

\* getDocument.execute: return {success: true, id, title, content, ...}
TGetDocumentReturns ==
  /\ ToolFrame
  /\ \E a \in Actors :
       /\ texec[a].pc = "read"
       /\ texec[a].tool = "getDocument"
       /\ Owns(texec[a].document, a)
       /\ tresults' = Append(tresults,
                             ToolReturn(a, "getDocument", texec[a].id, TRUE,
                                        {texec[a].document.user_id},
                                        texec[a].document.user_id))
       /\ texec' = [texec EXCEPT ![a] = IdleExec]
  /\ UNCHANGED <<documents, tupdates>>

\* updateDocument.execute: const updated = await updateDocument(id, title,
\* content); the row may have been deleted since it was read, and then no row
\* is updated and updated is undefined
TUpdateDocument ==
  /\ ToolFrame
  /\ \E a \in Actors :
       /\ texec[a].pc = "read"
       /\ texec[a].tool = "updateDocument"
       /\ Owns(texec[a].document, a)
       /\ LET id == texec[a].id
              row == getDocumentById(id)
          IN  /\ documents' = IF row.missing THEN documents
                              ELSE [documents EXCEPT ![id].content = a]
              /\ tupdates' = Append(tupdates,
                                    [by |-> a, id |-> id, owner |-> row.user_id])
              /\ tresults' = Append(tresults,
                                    ToolReturn(a, "updateDocument", id, TRUE,
                                               IF row.missing THEN {} ELSE {row.user_id},
                                               texec[a].document.user_id))
       /\ texec' = [texec EXCEPT ![a] = IdleExec]

\* the documents router's delete, called by the owner of the row
\* (src/src/server/routers/documents.ts)
TOwnerDeletes ==
  /\ ToolFrame
  /\ \E id \in DOMAIN documents :
       /\ ~documents[id].missing
       /\ documents' = [documents EXCEPT ![id].missing = TRUE]
  /\ UNCHANGED <<texec, tresults, tupdates>>

\* two requests of distinct users are running; each user owns one document
InitTools ==
  /\ LoopInitWith("map", "idle")
  /\ RouteIdle
  /\ WriterIdle
  /\ documents = << [user_id |-> "A", content |-> "A", missing |-> FALSE],
                    [user_id |-> "B", content |-> "B", missing |-> FALSE] >>
  /\ texec = [a \in Actors |-> IdleExec]
  /\ tresults = << >>
  /\ tupdates = << >>
  /\ ChatIdle
  /\ ClientIdle
  /\ ModelsIdle

NextTools ==
  \/ TCreateDocument
  \/ TListDocuments
  \/ TGetDocumentById
  \/ TRefuse
  \/ TGetDocumentReturns
  \/ TUpdateDocument
  \/ TOwnerDeletes

SpecTools == InitTools /\ [][NextTools]_vars

\* C14: under every interleaving of the executors of two users, no result of a
\* user carries fields of a row of another user, updateDocument and getDocument
\* on a row of another user return success: false, no updateDocument call on
\* the database is made for a refused execution or hits a row of another user,
\* every row holds what its owner wrote, and a created row is owned by the
\* user of the request.
C14_ToolsRespectOwnership ==
  /\ \A k \in DOMAIN tresults :
       LET r == tresults[k]
       IN  /\ r.owners \subseteq {r.actor}
           /\ (r.tool \in {"updateDocument", "getDocument"} /\ r.seen # r.actor) =>
                ~r.success
           /\ r.tool = "createDocument" =>
                /\ r.id \in DOMAIN documents
                /\ documents[r.id].user_id = r.actor
  /\ \A k \in DOMAIN tupdates : tupdates[k].owner \in {tupdates[k].by, ""}
  /\ \A a \in Actors :
       Len(SelectSeq(tupdates, LAMBDA u : u.by = a)) =
         Len(SelectSeq(tresults,
                       LAMBDA r : r.actor = a /\ r.tool = "updateDocument" /\ r.success))
  /\ \A id \in DOMAIN documents : documents[id].content = documents[id].user_id

\* B was refused the update of A's document and the read of it, and A updated
\* that document
Witness_C14 ==
  /\ \E k \in DOMAIN tresults :
       tresults[k] = ToolReturn("B", "updateDocument", 1, FALSE, {}, "A")
  /\ \E k \in DOMAIN tresults :
       tresults[k] = ToolReturn("B", "getDocument", 1, FALSE, {}, "A")
  /\ \E k \in DOMAIN tresults :
       tresults[k] = ToolReturn("A", "updateDocument", 1, TRUE, {"A"}, "A")

----------------------------------------------------------------------------
\* Two POST requests on the same chatId that overlap in time.  Each request
\* runs the steps of POST on its own task; the tasks share the chat_messages
\* table and interleave at every await.  Both requests passed getOrCreateChat
\* and carry a new user message.

Requests == {1, 2}

Session(variant_, pc, response) ==
  [variant |-> variant_, pc |-> pc, response |-> response]

\* a row of chat_messages of the chat: the request that inserted it, its role
ChatRow(request, role) == [request |-> request, role |-> role]

ChatFrame == UNCHANGED <<loopVars, routeVars, writerVars, toolVars, clientVars, modelVars>>

\* if (chatId) storeUserMessage(currentChatId, messages)
SStoreUserMessage ==
  /\ ChatFrame
  /\ \E r \in Requests :
       /\ sessions[r].pc = "userMessage"
       /\ chatMessages' = Append(chatMessages, ChatRow(r, "user"))
       /\ sessions' = [sessions EXCEPT ![r].pc = "start"]

\* return new Response(stream): start(controller) runs up to await queue.map;
\* handler 2 has called data() by then, handler 1 has not
SStart ==
  /\ ChatFrame
  /\ \E r \in Requests :
       /\ sessions[r].pc = "start"
       /\ sessions' = [sessions EXCEPT ![r].pc = "map"]
  /\ UNCHANGED chatMessages

\* data() pushes a text chunk and the map callback takes it:
\* assistantResponse += chunk
SMapCallback ==
  /\ ChatFrame
  /\ \E r \in Requests :
       /\ sessions[r].pc = "map"
       /\ sessions[r].variant = 2
       /\ Len(sessions[r].response) < MaxChunks
       /\ sessions' = [sessions EXCEPT
                         ![r].response = @ \o << ChunkText(Len(@) + 1) >>]
  /\ UNCHANGED chatMessages

\* data() has ended the queue and the promise of queue.map resolves
SMapResolved ==
  /\ ChatFrame
  /\ \E r \in Requests :
       /\ sessions[r].pc = "map"
       /\ sessions[r].variant = 2
       /\ sessions' = [sessions EXCEPT ![r].pc = "store"]
  /\ UNCHANGED chatMessages

\* the backend fails, or insertMessage or updateChatTimestamp rejects:
\* controller.error
SFails ==
  /\ ChatFrame
  /\ \E r \in Requests :
       /\ \/ sessions[r].pc = "map" /\ sessions[r].variant = 2
          \/ sessions[r].pc = "store" /\ sessions[r].response # << >>
          \/ sessions[r].pc = "touch"
       /\ sessions' = [sessions EXCEPT ![r].pc = "failed"]
  /\ UNCHANGED chatMessages

\* if (assistantResponse) is false
SStoreNothing ==
  /\ ChatFrame
  /\ \E r \in Requests :
       /\ sessions[r].pc = "store"
       /\ sessions[r].response = << >>
       /\ sessions' = [sessions EXCEPT ![r].pc = "done"]
  /\ UNCHANGED chatMessages

\* await insertMessage(currentChatId, 'assistant', assistantResponse)
SInsertAssistant ==
  /\ ChatFrame
  /\ \E r \in Requests :
       /\ sessions[r].pc = "store"
       /\ sessions[r].response # << >>
       /\ chatMessages' = Append(chatMessages, ChatRow(r, "assistant"))
       /\ sessions' = [sessions EXCEPT ![r].pc = "touch"]

\* await updateChatTimestamp(currentChatId)
STouchChat ==
  /\ ChatFrame
  /\ \E r \in Requests :
       /\ sessions[r].pc = "touch"
       /\ sessions' = [sessions EXCEPT ![r].pc = "done"]
  /\ UNCHANGED chatMessages

\* controller.enqueue(done); controller.close()
SSendDone ==
  /\ ChatFrame
  /\ \E r \in Requests :
       /\ sessions[r].pc = "done"
       /\ sessions' = [sessions EXCEPT ![r].pc = "finished"]
  /\ UNCHANGED chatMessages

\* both requests have resolved the chat
InitChat ==
  /\ LoopInitWith("none", "idle")
  /\ RouteIdle
  /\ WriterIdle
  /\ ToolsIdle
  /\ sessions \in [Requests -> { Session(v, "userMessage", << >>) : v \in {1, 2} }]
  /\ chatMessages = << >>
  /\ ClientIdle
  /\ ModelsIdle

NextChat ==
  \/ SStoreUserMessage
  \/ SStart
  \/ SMapCallback
  \/ SMapResolved
  \/ SFails
  \/ SStoreNothing
  \/ SInsertAssistant
  \/ STouchChat
  \/ SSendDone

SpecChat == InitChat /\ [][NextChat]_vars

\* C15: the rows two overlapping requests append to the same chat are
\* serialized per chat: the assistant row of a request directly follows the
\* user row of that request.
CE_C15_AppendsSerializedPerChat ==
  \A k \in DOMAIN chatMessages :
    chatMessages[k].role = "assistant" =>
      /\ k > 1
      /\ chatMessages[k - 1] = ChatRow(chatMessages[k].request, "user")

----------------------------------------------------------------------------
\* The map callback of createStreamingResponse applied to the queue of a
\* genTextStream that was given tools, with data() running while the queue
\* is mapped, which is how the earlier handler starts it (route.ts:448).
\* The session is one in which the backend issues at most two tool calls, so
\* the cap on the iterations is out of reach.

\* the first toolCallId of the session: the backend has two calls left
FirstStreamId == MaxCalls - 1

InitStream ==
  /\ toolsArg \in ToolsArgs
  /\ lpc = "ready"
  /\ iteration = 0
  /\ allText = ""
  /\ currentMessages = << >>
  /\ toolCalls = << >>
  /\ tcIdx = 1
  /\ toolResults = << >>
  /\ queue = << >>
  /\ queueEnded = FALSE
  /\ genCalls = 0
  /\ nextId = FirstStreamId
  /\ chunksOut = 0
  /\ threw = {}
  /\ executed = << >>
  /\ modelFailed = FALSE
  /\ invalidInput = {}
  /\ variant = 1
  /\ authed = TRUE
  /\ reqChat = "own"
  /\ reqValid = TRUE
  /\ reqMessages = << "user" >>
  /\ status = 200
  /\ userUpserts = 1
  /\ rpc = "map"
  /\ consumed = 0
  /\ assistantResponse = ""
  /\ stream = << >>
  /\ streamState = "open"
  /\ dbMessages = << >>
  /\ chatTouched = 0
  /\ dbCalls = << >>
  /\ WriterIdle
  /\ ToolsIdle
  /\ ChatIdle
  /\ ClientIdle
  /\ ModelsIdle

NextStream ==
  \/ DataStart
  \/ StartIteration
  \/ TextChunk
  \/ NoToolCalls
  \/ ToolCallsRequested
  \/ ExecToolReturns
  \/ ExecToolThrows
  \/ SkipTool
  \/ BuildMessages
  \/ EndQueue
  \/ RMapCallback

SpecStream == InitStream /\ [][NextStream]_vars

\* the record is the one the map callback writes for the chunk
WrittenFor(record, chunk) ==
  IF chunk.typeof = "string"
    THEN record.type = "text" /\ record.content = chunk.text
    ELSE /\ record.type = "tool_call"
         /\ record.toolCallId = chunk.toolCallId
         /\ record.name = chunk.toolName

----------------------------------------------------------------------------
\* The browser: ChatSidebar.handleSendMessage and sendChatStream
\* (src/src/components/ChatSidebar.tsx, src/src/lib/streams.ts), fed with the
\* responses of the chat endpoint of route.ts and with responses in the format
\* of EventSourceWriter, for which sendChatStream is written.

\* requests handleSendMessage sends, at most
MaxSends == 2
\* events in the body of one response, besides the done record of the endpoint
MaxFrames == 2

\* chatId.toString() and String(data.chatId)
StringOf(n) == << "0", "1", "2", "3", "4", "5", "6", "7", "8", "9" >>[n + 1]

\* parseInt(newChatId, 10)
parseInt(str) == CHOOSE n \in 0..9 : StringOf(n) = str

\* what loadChatFromStorage may yield: null, or the id of an earlier chat
StoredChatIds == {0, 9}

\* the id of a chat the server creates
NewChatId(created) == created + 1

\* The value of a key of a JSON object, or of a variable, that holds a chunk:
\* undefined, a string, or a part object.
NoChunk ==
  [typeof |-> "undefined", type |-> "undefined", text |-> "", toolCallId |-> 0,
   toolName |-> "", output |-> ""]
StringChunk(text) ==
  [typeof |-> "string", type |-> "undefined", text |-> text, toolCallId |-> 0,
   toolName |-> "", output |-> ""]
PartChunk(type, id, output) ==
  [typeof |-> "object", type |-> type, text |-> "", toolCallId |-> id,
   toolName |-> "getDocument", output |-> output]

\* JSON.parse(event.data): the keys the handlers read.  An absent key is
\* "undefined", "", 0, NoChunk or, for index, the empty set.
Json(type, content, chatId, chunk, index, message) ==
  [type |-> type, content |-> content, chatId |-> chatId, chunk |-> chunk,
   index |-> index, message |-> message]

\* an EventSourceMessage: event is "" when the record has no event line
Message(event, data) == [event |-> event, empty |-> FALSE, data |-> data]

\* event.data of a record that is not JSON, or is empty
NoJson == Json("undefined", "", 0, NoChunk, {}, "")

\* the endpoint's `data: ${JSON.stringify({type, content | toolCall, chatId})}\n\n`
\* and `data: ${JSON.stringify({done: true, chatId})}\n\n`: no event line, no
\* chunk key, no index key; the done object has no type key
MessageOfRecord(record, chatId) ==
  Message("", Json(IF record.type = "done" THEN "undefined" ELSE record.type,
                   record.content, chatId, NoChunk, {}, ""))

\* the records the map callback of the endpoint writes for a text chunk and
\* for a tool call
EndpointRecords ==
  { RecordOf(TextChunkOf("a")),
    RecordOf(ToolCallChunk([toolCallId |-> 1, toolName |-> "getDocument"])) }

\* EventSourceWriter: `event: ${label}\n` `data: ${JSON.stringify({chunk, index})}\n\n`
\* for a chunk of the queue, {...data, index} for sendEvent, [DONE] for flush
WriterMessages(chatId) ==
  UNION { { Message("text", Json("undefined", "", 0, StringChunk("a"), {i}, "")),
            Message("tool-call",
                    Json("undefined", "", 0, PartChunk("tool-call", 1, ""), {i}, "")),
            Message("tool-result",
                    Json("undefined", "", 0, PartChunk("tool-result", 1, "out"), {i}, "")),
            Message("meta", Json("undefined", "", chatId, NoChunk, {i}, "")),
            Message("error", Json("undefined", "", 0, NoChunk, {i}, "boom")) }
          : i \in 0..1 }
    \cup { Message("done", NoJson),
           [event |-> "", empty |-> TRUE, data |-> NoJson] }

\* the Response of POST: status, the X-Chat-Id header (Null when there is
\* none), the events of the body read so far, how the body has ended
Response(producer, status10, header, created, chat) ==
  [producer |-> producer, status |-> status10, header |-> header, frames |-> << >>,
   end |-> "", created |-> created, chat |-> chat]

\* The responses to a request sent with chatId: those of the endpoint, whose
\* headers are Content-Type, Cache-Control and Connection, and responses in
\* the format of EventSourceWriter, with or without an X-Chat-Id header.
Responses(chatId) ==
  LET created == chatId = Null
      chat == IF created THEN NewChatId(chatsCreated) ELSE parseInt(chatId)
  IN  { Response("endpoint", st, Null, FALSE, 0) : st \in {401, 404, 500} }
        \cup { Response("endpoint", 200, Null, created, chat) }
        \cup { Response("writer", 200, h, created, chat) : h \in {Null, StringOf(chat)} }

\* the endpoint has written its done record, after which it closes the stream
DoneWritten ==
  /\ httpResponse.producer = "endpoint"
  /\ httpResponse.frames # << >>
  /\ httpResponse.frames[Len(httpResponse.frames)]
       = MessageOfRecord(DoneRecord, httpResponse.chat)

\* the events that may come next in the body
NextEvents ==
  IF httpResponse.producer = "endpoint"
    THEN IF DoneWritten THEN {}
         ELSE { MessageOfRecord(DoneRecord, httpResponse.chat) }
                \cup (IF Len(httpResponse.frames) < MaxFrames
                        THEN { MessageOfRecord(r, httpResponse.chat) : r \in EndpointRecords }
                        ELSE {})
    ELSE IF Len(httpResponse.frames) < MaxFrames
           THEN WriterMessages(httpResponse.chat) ELSE {}

\* resolve(value) and reject(error): a settled promise stays as it is
Resolve(p, chatId) ==
  IF p.state = "pending" THEN [state |-> "resolved", chatId |-> chatId] ELSE p
Reject(p) ==
  IF p.state = "pending" THEN [state |-> "rejected", chatId |-> Null] ELSE p

\* an invocation of one of the StreamCallbacks
Callback(name, text, id) == [name |-> name, text |-> text, id |-> id]

\* toolInvocationsMap.set(id, invocation)
MapSet(map, id, invocation) ==
  [k \in DOMAIN map \cup {id} |-> IF k = id THEN invocation ELSE map[k]]

ToolInvocation(id, name, state, result) ==
  [toolCallId |-> id, toolName |-> name, state |-> state, result |-> result]

\* ChatSidebar's onComplete: if (newChatId && !chatId) setChatId(parseInt(newChatId, 10)),
\* where chatId is the one the callbacks were created with, the one sent
OnComplete(sentChatId, current, newChatId) ==
  IF newChatId # Null /\ sentChatId = Null THEN parseInt(newChatId) ELSE current

ClientFrame ==
  UNCHANGED <<loopVars, routeVars, writerVars, toolVars, chatVars, modelVars>>

\* the test with the lookup in processed left out
AlreadyProcessed_Never(index, seen) == index # {} /\ FALSE

\* data.index !== undefined && processed[data.index]
AlreadyProcessed(index, seen) == index # {} /\ index \cap seen # {}

\* the chatId of the request in progress: chatId?.toString() ?? null
SentChatId == sent[Len(sent)]

\* handleSendMessage, up to the call of fetchEventSource in sendChatStream.
\* isLoading keeps it from running while the promise of the request before
\* is pending; the model also waits for the body of that response to end.
CSend ==
  /\ cpc \in {"idle", "ended"}
  /\ promise.state # "pending" \/ cpc = "idle"
  /\ Len(sent) < MaxSends
  /\ LET chatId == IF sidebarChatId = 0 THEN Null ELSE StringOf(sidebarChatId)
     IN  /\ sent' = Append(sent, chatId)
         /\ resultChatId' = chatId
         /\ \E r \in Responses(chatId) :
              /\ httpResponse' = r
              /\ chatsCreated' = chatsCreated + (IF r.created THEN 1 ELSE 0)
  /\ cpc' = "open"
  /\ delivered' = 0
  /\ rejected' = FALSE
  /\ processed' = {}
  /\ toolInvocationsMap' = << >>
  /\ callbacks' = << >>
  /\ promise' = Pending
  /\ UNCHANGED sidebarChatId
  /\ ClientFrame

\* onopen(response)
COnOpen ==
  /\ cpc = "open"
  /\ IF httpResponse.status # 200
       THEN /\ callbacks' = Append(callbacks, Callback("onError", "", 0))
            /\ promise' = Reject(promise)
            /\ rejected' = TRUE
            /\ cpc' = "ended"
            /\ UNCHANGED resultChatId
       ELSE /\ resultChatId' =
                 IF httpResponse.header # Null THEN httpResponse.header ELSE resultChatId
            /\ cpc' = "reading"
            /\ UNCHANGED <<callbacks, promise, rejected>>
  /\ UNCHANGED <<sidebarChatId, sent, chatsCreated, httpResponse, delivered, processed,
                 toolInvocationsMap>>
  /\ ClientFrame

\* onmessage(event), for the next event of the body
COnMessage ==
  /\ cpc = "reading"
  /\ \E event \in NextEvents :
     /\ httpResponse' = [httpResponse EXCEPT !.frames = Append(@, event)]
     /\ delivered' = delivered + 1
     /\ LET data == event.data
            chunk == data.chunk
            hasId == chunk.typeof = "object" /\ chunk.toolCallId # 0
            call == ToolInvocation(chunk.toolCallId, chunk.toolName, "call", "")
            existing == toolInvocationsMap[chunk.toolCallId]
            result ==
              IF chunk.toolCallId \in DOMAIN toolInvocationsMap
                THEN [existing EXCEPT !.state = "result", !.result = chunk.output]
                ELSE ToolInvocation(chunk.toolCallId, chunk.toolName, "result", chunk.output)
        IN  CASE rejected \/ event.empty ->
                   UNCHANGED <<sidebarChatId, resultChatId, rejected, processed,
                               toolInvocationsMap, callbacks, promise>>
              [] ~(rejected \/ event.empty) /\ event.event = "done" ->
                   /\ callbacks' = Append(callbacks, Callback("onComplete", resultChatId, 0))
                   /\ sidebarChatId' = OnComplete(SentChatId, sidebarChatId, resultChatId)
                   /\ promise' = Resolve(promise, resultChatId)
                   /\ UNCHANGED <<resultChatId, rejected, processed, toolInvocationsMap>>
              [] ~(rejected \/ event.empty) /\ event.event # "done"
                   /\ AlreadyProcessed(data.index, processed) ->
                   UNCHANGED <<sidebarChatId, resultChatId, rejected, processed,
                               toolInvocationsMap, callbacks, promise>>
              [] OTHER ->
                   /\ processed' = processed \cup data.index
                   /\ UNCHANGED sidebarChatId
                   /\ CASE event.event = "text" ->
                             /\ callbacks' =
                                  IF chunk.typeof = "string"
                                    THEN Append(callbacks, Callback("onTextDelta", chunk.text, 0))
                                    ELSE callbacks
                             /\ UNCHANGED <<resultChatId, rejected, toolInvocationsMap, promise>>
                        [] event.event = "tool-call" ->
                             /\ IF hasId
                                  THEN /\ toolInvocationsMap' =
                                            MapSet(toolInvocationsMap, chunk.toolCallId, call)
                                       /\ callbacks' = Append(callbacks,
                                            Callback("onToolCall", "call", chunk.toolCallId))
                                  ELSE UNCHANGED <<toolInvocationsMap, callbacks>>
                             /\ UNCHANGED <<resultChatId, rejected, promise>>
                        [] event.event = "tool-result" ->
                             /\ IF hasId
                                  THEN /\ toolInvocationsMap' =
                                            MapSet(toolInvocationsMap, chunk.toolCallId, result)
                                       /\ callbacks' = Append(callbacks,
                                            Callback("onToolResult", "result", chunk.toolCallId))
                                  ELSE UNCHANGED <<toolInvocationsMap, callbacks>>
                             /\ UNCHANGED <<resultChatId, rejected, promise>>
                        [] event.event = "meta" ->
                             /\ resultChatId' =
                                  IF data.chatId # 0 THEN StringOf(data.chatId) ELSE resultChatId
                             /\ UNCHANGED <<rejected, toolInvocationsMap, callbacks, promise>>
                        [] event.event = "error" ->
                             /\ callbacks' = Append(callbacks, Callback("onError", "", 0))
                             /\ promise' = Reject(promise)
                             /\ rejected' = TRUE
                             /\ UNCHANGED <<resultChatId, toolInvocationsMap>>
                        [] OTHER ->
                             UNCHANGED <<resultChatId, rejected, toolInvocationsMap, callbacks,
                                         promise>>
  /\ UNCHANGED <<sent, chatsCreated, cpc>>
  /\ ClientFrame

\* onclose(), once the body has ended without an error: the endpoint closes
\* the stream after its done record
COnClose ==
  /\ cpc = "reading"
  /\ httpResponse.producer = "endpoint" => DoneWritten
  /\ httpResponse' = [httpResponse EXCEPT !.end = "close"]
  /\ promise' = IF rejected THEN promise ELSE Resolve(promise, resultChatId)
  /\ cpc' = "ended"
  /\ UNCHANGED <<sidebarChatId, sent, chatsCreated, delivered, resultChatId,
                 rejected, processed, toolInvocationsMap, callbacks>>
  /\ ClientFrame

\* onerror(error), once reading the body has failed: the endpoint errors the
\* stream in its catch block, instead of writing the done record.  When it throws,
\* fetchEventSource stops and its promise, which sendChatStream discards,
\* rejects; when it returns, fetchEventSource sends the request again.
COnError ==
  /\ cpc = "reading"
  /\ ~DoneWritten
  /\ httpResponse' = [httpResponse EXCEPT !.end = "error"]
  /\ IF rejected
       THEN /\ cpc' = "retry"
            /\ UNCHANGED callbacks
       ELSE /\ callbacks' = Append(callbacks, Callback("onError", "", 0))
            /\ cpc' = "ended"
  /\ UNCHANGED <<sidebarChatId, sent, chatsCreated, delivered, resultChatId,
                 rejected, processed, toolInvocationsMap, promise>>
  /\ ClientFrame

\* fetchEventSource sends the same request again: the same body, so the same
\* chatId, with the state of sendChatStream as it is
CRetry ==
  /\ cpc = "retry"
  /\ Len(sent) < MaxSends
  /\ sent' = Append(sent, SentChatId)
  /\ \E r \in Responses(SentChatId) :
       /\ httpResponse' = r
       /\ chatsCreated' = chatsCreated + (IF r.created THEN 1 ELSE 0)
  /\ cpc' = "open"
  /\ delivered' = 0
  /\ UNCHANGED <<sidebarChatId, resultChatId, rejected, processed, toolInvocationsMap,
                 callbacks, promise>>
  /\ ClientFrame

\* handleNewThread while the request is loading: abortControllerRef.current
\* .abort(), which aborts the controller of sendChatStream, then
\* setChatId(null).  fetchEventSource stops on the abort of its signal and
\* calls no handler.
CAbort ==
  /\ cpc \in {"open", "reading"}
  /\ promise.state = "pending"
  /\ httpResponse' = [httpResponse EXCEPT !.end = "abort"]
  /\ sidebarChatId' = 0
  /\ cpc' = "ended"
  /\ UNCHANGED <<sent, chatsCreated, delivered, resultChatId, rejected, processed,
                 toolInvocationsMap, callbacks, promise>>
  /\ ClientFrame

InitClient ==
  /\ LoopInitWith("none", "idle")
  /\ RouteIdle
  /\ WriterIdle
  /\ ToolsIdle
  /\ ChatIdle
  /\ sidebarChatId \in StoredChatIds
  /\ sent = << >>
  /\ chatsCreated = 0
  /\ httpResponse = NoResponse
  /\ cpc = "idle"
  /\ delivered = 0
  /\ resultChatId = Null
  /\ rejected = FALSE
  /\ processed = {}
  /\ toolInvocationsMap = << >>
  /\ callbacks = << >>
  /\ promise = Pending
  /\ ModelsIdle

NextClient ==
  \/ CSend
  \/ COnOpen
  \/ COnMessage
  \/ COnClose
  \/ COnError
  \/ CRetry
  \/ CAbort

SpecClient == InitClient /\ [][NextClient]_vars

\* the response in hand is a stream of the chat endpoint, answering a request
\* that sendChatStream has not rejected
EndpointStream ==
  /\ Len(sent) > 0
  /\ httpResponse.producer = "endpoint"
  /\ httpResponse.status = 200
  /\ ~rejected

\* C18: when a request sent without a chatId has been answered by the chat
\* endpoint and its stream has completed, the response has a header with the
\* id of the chat the server resolved, sendChatStream has resolved with that
\* id, and the sidebar holds it, so that the next request is sent with it.
CE_C18_HeaderCarriesResolvedChatId ==
  (/\ EndpointStream
   /\ SentChatId = Null
   /\ httpResponse.end = "close"
   /\ cpc = "ended")
    => /\ httpResponse.header = StringOf(httpResponse.chat)
       /\ promise = [state |-> "resolved", chatId |-> StringOf(httpResponse.chat)]
       /\ sidebarChatId = httpResponse.chat

\* the labels sendChatStream recognizes
Labels == {"text", "tool-call", "tool-result", "meta", "done", "error"}

\* the events delivered so far that the endpoint wrote for chunks of the type
WrittenOfType(type) ==
  { k \in 1..delivered : httpResponse.frames[k].data.type = type }

\* the invocations so far of the callback
Invocations(name) ==
  { k \in 1..Len(callbacks) : callbacks[k].name = name }

\* C19: every record of a stream of the chat endpoint has one of the labels
\* text, tool-call, tool-result, meta, done, error, and once the stream has
\* ended onTextDelta has run once per text record written and onToolCall
\* once per tool-call record written.
CE_C19_RecordsLabelledAsClientExpects ==
  (/\ EndpointStream
   /\ cpc = "ended")
    => /\ \A k \in 1..delivered : httpResponse.frames[k].event \in Labels
       /\ Cardinality(Invocations("onTextDelta")) = Cardinality(WrittenOfType("text"))
       /\ Cardinality(Invocations("onToolCall")) = Cardinality(WrittenOfType("tool_call"))

\* the event passed to onmessage in the step
Received == httpResponse'.frames[Len(httpResponse'.frames)]

\* the records that carry an index
IndexedLabels == {"text", "tool-call", "tool-result", "meta", "error"}

\* the invocations so far of callbacks that only a record with an index triggers
IndexedInvocations ==
  Invocations("onTextDelta") \cup Invocations("onToolCall")
    \cup Invocations("onToolResult")

\* C32: once fetchEventSource has stopped for a request (after a non-ok
\* response, the close of the stream, a transport error or an abort), so that
\* no handler runs again, the promise of sendChatStream has settled and
\* handleSendMessage has left its await.
CE_C32_PromiseSettlesWhenRequestEnds ==
  cpc = "ended" => promise.state # "pending"

\* C35: once sendChatStream has rejected a request, no handler invokes a
\* callback, changes the map of invocations or settles the promise for that
\* request again: the onError of the rejection stays the last callback.
CE_C35_NoCallbackAfterReject ==
  [][(rejected /\ rejected') =>
       /\ callbacks' = callbacks
       /\ toolInvocationsMap' = toolInvocationsMap
       /\ promise' = promise]_vars

\* onComplete was invoked for the request in progress
Completed == \E k \in DOMAIN callbacks : callbacks[k].name = "onComplete"

\* C36: after onComplete was invoked for a request, no callback is invoked for
\* that request again, whatever records or transport events follow: the
\* onComplete stays the last callback until the next call of sendChatStream,
\* which starts with no callback.
CE_C36_DoneIsTerminal ==
  [][(Completed /\ callbacks' # << >>) => callbacks' = callbacks]_vars

\* C22: a text, tool-call, tool-result, meta or error record whose index is
\* that of a record processed before runs no callback and changes neither the
\* invocation map, nor the result chat id, nor the promise; and no more
\* callbacks for text and tool records have run than there are distinct
\* indexes processed.
C22_DuplicateIndexIsIgnored ==
  /\ [](Cardinality(IndexedInvocations) <= Cardinality(processed))
  /\ [][(/\ delivered' = delivered + 1
         /\ Received.event \in IndexedLabels
         /\ Received.data.index \cap processed # {})
          => /\ callbacks' = callbacks
             /\ toolInvocationsMap' = toolInvocationsMap
             /\ resultChatId' = resultChatId
             /\ promise' = promise
             /\ rejected' = rejected
             /\ processed' = processed]_vars

\* a text record and then a tool-call record with the index of the text
\* record were delivered: one onTextDelta has run and the map is empty
Witness_C22 ==
  /\ delivered = 2
  /\ Len(httpResponse.frames) = 2
  /\ httpResponse.frames[1].event = "text"
  /\ httpResponse.frames[2].event = "tool-call"
  /\ httpResponse.frames[1].data.index = httpResponse.frames[2].data.index
  /\ ~rejected
  /\ callbacks = << Callback("onTextDelta", "a", 0) >>
  /\ toolInvocationsMap = << >>

\* a tool-result record with the toolCallId was processed
ResultProcessed(id) ==
  \E k \in DOMAIN callbacks :
    callbacks[k].name = "onToolResult" /\ callbacks[k].id = id

\* C23: the invocation map has an entry for a toolCallId in state 'result'
\* exactly when a tool-result record with that id was processed, whatever the
\* order of the tool-call and tool-result records, and the result of the
\* entry is the output of that record.
CE_C23_ResultsCorrelatedByToolCallId ==
  /\ \A id \in DOMAIN toolInvocationsMap :
       /\ toolInvocationsMap[id].toolCallId = id
       /\ toolInvocationsMap[id].state = "result" <=> ResultProcessed(id)
       /\ toolInvocationsMap[id].state = "result"
            => toolInvocationsMap[id].result = PartChunk("tool-result", id, "out").output
  /\ \A k \in DOMAIN callbacks :
       callbacks[k].name = "onToolResult" => callbacks[k].id \in DOMAIN toolInvocationsMap

----------------------------------------------------------------------------
\* The provider of a model: getModel (src/src/server/lib/models/client.ts) and
\* the enums and predicates of src/src/server/lib/models/models.ts.  Every
\* method of LLMClient starts with getModel(this.#model).

\* calls of methods on one LLMClient, at most
MaxModelCalls == 2

\* Object.values of the enums
ClaudeChatModel == {"claude-opus-4-0", "claude-sonnet-4-0"}
GeminiChatModel == {"gemini-2.5-pro", "gemini-2.0-flash-lite", "gemini-2.0-flash"}
OpenAIChatModel == {"gpt-4.1-2025-04-14"}

\* Strings that are values of none of the enums, which the type ChatModel
\* does not keep out at run time: the empty string, names of enum members,
\* identifiers of other models of the three providers, an identifier in
\* capitals, and a string that is not a model at all.
OtherIdentifiers ==
  {"", "FLASH", "GPT41", "gpt-4o", "gemini-2.0", "claude-opus-4-1",
   "GEMINI-2.0-FLASH", "llama-3"}

Identifiers ==
  ClaudeChatModel \cup GeminiChatModel \cup OpenAIChatModel \cup OtherIdentifiers

\* array.includes(model), for strings
includes(array, model) == model \in array

isOpenAIModel(model) == includes(OpenAIChatModel, model)

isClaudeModel(model) == includes(ClaudeChatModel, model)

isGeminiModel(model) == includes(GeminiChatModel, model)

\* what a call of getModel comes to: the model of a provider, or an Error
Provided(provider, modelName) ==
  [provider |-> provider, modelId |-> modelName, error |-> ""]
Thrown(message) == [provider |-> "", modelId |-> "", error |-> message]

\* a variant that falls back to a provider instead of throwing
getModel_Default(modelName) ==
  IF isGeminiModel(modelName) THEN Provided("google", modelName)
  ELSE IF isClaudeModel(modelName) THEN Provided("anthropic", modelName)
  ELSE Provided("openai", modelName)

getModel(modelName) ==
  IF isGeminiModel(modelName) THEN Provided("google", modelName)
  ELSE IF isClaudeModel(modelName) THEN Provided("anthropic", modelName)
  ELSE IF isOpenAIModel(modelName) THEN Provided("openai", modelName)
  ELSE Thrown("Invalid model")

ModelFrame ==
  UNCHANGED <<loopVars, routeVars, writerVars, toolVars, chatVars, clientVars>>

\* a call of getModel made by the method, and what came of it
ModelCall(method) ==
  [method |-> method, modelName |-> llmModel, outcome |-> getModel(llmModel)]

\* genText: const model = getModel(this.#model)
MGenText ==
  /\ Len(modelCalls) < MaxModelCalls
  /\ modelCalls' = Append(modelCalls, ModelCall("genText"))
  /\ UNCHANGED llmModel
  /\ ModelFrame

\* genCodeBlockStream: const model = getModel(this.#model)
MGenCodeBlockStream ==
  /\ Len(modelCalls) < MaxModelCalls
  /\ modelCalls' = Append(modelCalls, ModelCall("genCodeBlockStream"))
  /\ UNCHANGED llmModel
  /\ ModelFrame

\* genTextStream: const model = getModel(this.#model)
MGenTextStream ==
  /\ Len(modelCalls) < MaxModelCalls
  /\ modelCalls' = Append(modelCalls, ModelCall("genTextStream"))
  /\ UNCHANGED llmModel
  /\ ModelFrame

\* genJson: const model = getModel(this.#model)
MGenJson ==
  /\ Len(modelCalls) < MaxModelCalls
  /\ modelCalls' = Append(modelCalls, ModelCall("genJson"))
  /\ UNCHANGED llmModel
  /\ ModelFrame

\* genJsonStream: const model = getModel(this.#model)
MGenJsonStream ==
  /\ Len(modelCalls) < MaxModelCalls
  /\ modelCalls' = Append(modelCalls, ModelCall("genJsonStream"))
  /\ UNCHANGED llmModel
  /\ ModelFrame

\* new LLMClient(model)
InitModels ==
  /\ LoopInitWith("none", "idle")
  /\ RouteIdle
  /\ WriterIdle
  /\ ToolsIdle
  /\ ChatIdle
  /\ ClientIdle
  /\ llmModel \in Identifiers
  /\ modelCalls = << >>

NextModels ==
  \/ MGenText
  \/ MGenCodeBlockStream
  \/ MGenTextStream
  \/ MGenJson
  \/ MGenJsonStream

SpecModels == InitModels /\ [][NextModels]_vars

\* the predicates that hold of the identifier
FamiliesOf(model) ==
  (IF isGeminiModel(model) THEN {"google"} ELSE {})
    \cup (IF isClaudeModel(model) THEN {"anthropic"} ELSE {})
    \cup (IF isOpenAIModel(model) THEN {"openai"} ELSE {})

\* C20: the identifier of the client satisfies exactly one of isGeminiModel,
\* isClaudeModel, isOpenAIModel when it is a value of one of the three enums
\* and none otherwise; every call of getModel for an enum value yields the
\* model of the provider whose predicate holds, every call for any other
\* identifier throws 'Invalid model' and yields no provider, and two calls
\* for the same identifier come to the same.
C20_GetModelIsTotalAndExplicit ==
  /\ Cardinality(FamiliesOf(llmModel))
       = (IF llmModel \in OtherIdentifiers THEN 0 ELSE 1)
  /\ \A k \in 1..Len(modelCalls) :
       LET call == modelCalls[k]
       IN  /\ call.modelName \notin OtherIdentifiers
                => /\ call.outcome.error = ""
                   /\ FamiliesOf(call.modelName) = {call.outcome.provider}
                   /\ call.outcome.modelId = call.modelName
           /\ call.modelName \in OtherIdentifiers
                => call.outcome = Thrown("Invalid model")
           /\ \A j \in 1..Len(modelCalls) :
                modelCalls[j].modelName = call.modelName
                  => modelCalls[j].outcome = call.outcome

\* two methods of a client built with an identifier of another model of a
\* provider have both thrown
Witness_C20 ==
  /\ llmModel = "gpt-4o"
  /\ Len(modelCalls) = MaxModelCalls
  /\ modelCalls[1].method # modelCalls[MaxModelCalls].method
  /\ \A k \in 1..Len(modelCalls) : modelCalls[k].outcome.error = "Invalid model"

====
